---- MODULE Spec2Model ----
\* Model of the container network context of lib/portlayer/network/context.go:
\* scopes and their IPAM, the default bridge pool, the scope records of the
\* key/value store, the addresses of the bridge link, the container and alias
\* indexes, the endpoints each bound container object lists, and the
\* caller-owned handles.
\*
\* IPv4 addresses are natural numbers; 0 is the unspecified address 0.0.0.0.
\* A network is [ip |-> base address, hb |-> number of host bits], so a
\* network's mask is fixed by hb and it covers ip .. ip + 2^hb - 1.
EXTENDS Integers, Sequences, FiniteSets, TLC

VARIABLES config, scopes, pool, kv, link, containers, aliases, conEndpoints, handles, last,
          mutex, calls

vars == <<config, scopes, pool, kv, link, containers, aliases, conEndpoints, handles, last, mutex, calls>>

\* The context's mutex and the calls in progress, one per goroutine.
lockVars == <<mutex, calls>>

ctxVars == <<config, scopes, pool, kv, link, containers, aliases, conEndpoints>>

\* ---------------------------------------------------------------- bounds

\* The number of names NewScope is called with.
MaxUserScopes == 2

\* The number of device changes a handle's spec collects while it is staged.
MaxDevs == 3

\* The number of values the store holds at most where it is written past the context.
MaxStored == 4

\* ------------------------------------------------------------- utilities

EmptyMap == [x \in {} |-> 0]

MapPut(f, k, v) == [x \in (DOMAIN f) \cup {k} |-> IF x = k THEN v ELSE f[x]]

MapDel(f, k) == [x \in (DOMAIN f) \ {k} |-> f[x]]

Range(f) == {f[x] : x \in DOMAIN f}

SetMin(S) == CHOOSE x \in S : \A y \in S : x <= y

\* The sequences that enumerate the set S once each (Go map iteration order).
Orders(S) == {q \in [1..Cardinality(S) -> S] : \A i, j \in 1..Cardinality(S) : q[i] = q[j] => i = j}

\* ------------------------------------------------------ addresses (pkg/ip)

NoIP == 0

NoNet == [ip |-> 0, hb |-> 0]

IsUnspecifiedIP(a) == a = NoIP

IsUnspecifiedSubnet(n) == n.ip = NoIP

NetLo(n) == n.ip

highestIP4(n) == n.ip + 2^(n.hb) - 1

NetContains(n, a) == ~IsUnspecifiedSubnet(n) /\ a >= NetLo(n) /\ a <= highestIP4(n)

AllZerosAddr(n) == NetLo(n)

AllOnesAddr(n) == highestIP4(n)

IsRoutableIP(a, n) == NetContains(n, a) /\ a # AllZerosAddr(n) /\ a # AllOnesAddr(n)

\* ----------------------------------------------------------- AddressSpace

\* An address space is [first, last, used]: an inclusive range and the set of
\* addresses reserved in it. The default bridge pool holds no single addresses,
\* only carved sub-ranges: the variable pool is the set of its live children.

NewAddressSpaceFromRange(first, lst) == [first |-> first, last |-> lst, used |-> {}]

NewAddressSpaceFromNetwork(n) == NewAddressSpaceFromRange(NetLo(n), highestIP4(n))

SpaceAddrs(p) == p.first .. p.last

CanReserveIP4(p, a) == a \in SpaceAddrs(p) /\ a \notin p.used

ReserveIP4(p, a) == IF CanReserveIP4(p, a) THEN [p EXCEPT !.used = @ \cup {a}] ELSE p

HasNextIP4(p) == SpaceAddrs(p) \ p.used # {}

NextIP4(p) == SetMin(SpaceAddrs(p) \ p.used)

ReleaseIP4(p, a) == [p EXCEPT !.used = @ \ {a}]

RangesOverlap(r1, r2) == r1.first <= r2.last /\ r2.first <= r1.last

RangeOf(n) == [first |-> NetLo(n), last |-> highestIP4(n)]

\* ReserveIP4Net / ReserveIP4Range on a parent whose live children are kids:
\* the range must lie within the parent and overlap no live child.
CanReserveRange(parent, kids, r) ==
    /\ r.first <= r.last
    /\ r.first >= parent.first /\ r.last <= parent.last
    /\ \A k \in kids : ~RangesOverlap(k, r)

\* ------------------------------------------------------------ configuration

\* constants.DefaultBridgeRange and the default width, scaled down: the pool
\* covers 32..47 and an auto-allocated bridge subnet has 3 host bits.
DefaultBridgeRange == [ip |-> 32, hb |-> 4]

\* The configuration NewContext is given: the range of the default bridge pool.
Configuration(bridgeRange) == [BridgeIPRange |-> bridgeRange]

BridgeIPRange == config.BridgeIPRange

BridgePoolSpace == NewAddressSpaceFromNetwork(BridgeIPRange)

\* A width of the bridge networks one bit narrower.
BridgeWidthNarrow == BridgeIPRange.hb - 2

BridgeWidthHostBits == 3

DefaultBridgeName == "bridge"

\* config.PortGroups: the names that have a backing port group.
PortGroups == {"bridge", "ext", "ext1"}

\* config.ContainerNetworks besides the bridge network: one external network.
ConfigExternal ==
    [name |-> "ext", type |-> "external", gateway |-> 9, subnet |-> [ip |-> 8, hb |-> 2],
     dns |-> <<>>, trust |-> "published", pools |-> <<>>]

\* NextIP4Net: the lowest block of the requested width that is free in the pool.
NextIP4NetCandidates(kids, hb) ==
    {b \in SpaceAddrs(BridgePoolSpace) :
        /\ (b - BridgePoolSpace.first) % (2^hb) = 0
        /\ CanReserveRange(BridgePoolSpace, kids, RangeOf([ip |-> b, hb |-> hb]))}

NextIP4NetOK(kids, hb) == NextIP4NetCandidates(kids, hb) # {}

NextIP4Net(kids, hb) == [ip |-> SetMin(NextIP4NetCandidates(kids, hb)), hb |-> hb]

\* ------------------------------------------------------------------ scopes

\* A pool string of ScopeData.Pools: ip.ParseRange yields a range or nothing.
ParseRangeOK(p) == p.valid

\* Scope.isDynamic: external and without address spaces.
isDynamic(s) == s.type = "external" /\ Len(s.spaces) = 0

\* newScope of scope.go: the scope object before its admission by addScope.
newScopeObject(id, scopeType, sd) ==
    [id |-> id, name |-> sd.name, type |-> scopeType, subnet |-> sd.subnet,
     gateway |-> sd.gateway, dns |-> sd.dns, trust |-> sd.trust,
     internal |-> sd.internal, builtin |-> FALSE,
     spaces |-> [i \in 1..Len(sd.pools) |-> NewAddressSpaceFromRange(sd.pools[i].first, sd.pools[i].last)],
     endpoints |-> EmptyMap]

checkNetOverlap(sc, subnet) ==
    \E n \in DOMAIN sc :
        \/ NetContains(sc[n].subnet, subnet.ip)
        \/ NetContains(sc[n].subnet, highestIP4(subnet))

\* reserveSubnet after the overlap check: carve from the default bridge pool
\* when that succeeds, else a standalone space.
reserveSubnetFromPool(pl, subnet) == CanReserveRange(BridgePoolSpace, pl, RangeOf(subnet))

reservePoolsOK(space, pools) ==
    \A i \in 1..Len(pools) :
        /\ CanReserveRange(space, {}, pools[i])
        /\ \A j \in 1..(i - 1) : ~RangesOverlap(pools[j], pools[i])

reservePools(space, pools) ==
    IF Len(pools) = 0 THEN <<space>>
    ELSE [i \in 1..Len(pools) |-> NewAddressSpaceFromRange(pools[i].first, pools[i].last)]

\* Reservations that leave the all-zeros address out.
reserveFixedWithoutZeros(p, subnet, dns, gateway) ==
    [p EXCEPT !.used = @ \cup (SpaceAddrs(p) \cap
        ({AllOnesAddr(subnet)} \cup {dns[i] : i \in {j \in 1..Len(dns) : dns[j] # gateway}}))]

\* Reservations that leave the DNS addresses out.
reserveFixedWithoutDNS(p, subnet, dns, gateway) ==
    [p EXCEPT !.used = @ \cup (SpaceAddrs(p) \cap {AllOnesAddr(subnet), AllZerosAddr(subnet)})]

\* The reservations of addScope's loop over the pools: all-ones, all-zeros and
\* every DNS address other than the gateway, each where the pool accepts it.
reserveFixed(p, subnet, dns, gateway) ==
    [p EXCEPT !.used = @ \cup (SpaceAddrs(p) \cap
        ({AllOnesAddr(subnet), AllZerosAddr(subnet)} \cup {dns[i] : i \in {j \in 1..Len(dns) : dns[j] # gateway}}))]

\* The first pool, in order, that accepts the reservation of address a (0: none).
FirstAccepting(spaces, a) ==
    IF \E i \in 1..Len(spaces) : CanReserveIP4(spaces[i], a)
    THEN SetMin({i \in 1..Len(spaces) : CanReserveIP4(spaces[i], a)})
    ELSE 0

reserveGateway(gateway, subnet, spaces) ==
    IF IsUnspecifiedSubnet(subnet) THEN [err |-> "nil subnet", gateway |-> NoIP, spaces |-> spaces]
    ELSE IF ~IsUnspecifiedIP(gateway) THEN
        IF ~IsRoutableIP(gateway, subnet)
        THEN [err |-> "gateway not routable", gateway |-> NoIP, spaces |-> spaces]
        ELSE LET i == FirstAccepting(spaces, gateway) IN
             [err |-> "", gateway |-> gateway,
              spaces |-> IF i = 0 THEN spaces ELSE [spaces EXCEPT ![i] = ReserveIP4(@, gateway)]]
    ELSE IF Len(spaces) > 0 THEN
        IF ~HasNextIP4(spaces[1])
        THEN [err |-> "pool exhausted", gateway |-> NoIP, spaces |-> spaces]
        ELSE LET g == NextIP4(spaces[1])
                 sp == [spaces EXCEPT ![1] = ReserveIP4(@, g)] IN
             IF ~IsRoutableIP(g, subnet)
             THEN [err |-> "gateway not routable", gateway |-> NoIP, spaces |-> sp]
             ELSE [err |-> "", gateway |-> g, spaces |-> sp]
    ELSE [err |-> "could not reserve gateway", gateway |-> NoIP, spaces |-> spaces]

\* defaultBridgePool.ReleaseIP4Range(space) of addScope's cleanup.
ReleaseIP4Range(kids, subnet) == kids \ {RangeOf(subnet)}

\* A cleanup that returns nothing to the default bridge pool.
addScopeCleanupSkipped(carved, defaultPool, subnet) == carved

\* The deferred cleanup of addScope on an error after the subnet was reserved:
\* a subnet carved from the default bridge pool goes back to it.
addScopeCleanup(carved, defaultPool, subnet) ==
    IF defaultPool THEN ReleaseIP4Range(carved, subnet) ELSE carved

\* addScope: the result is [err, scopes, pool], the context's scopes and the
\* default bridge pool's children after the call, cleanup included.
\* The part of addScope after the gateway reservation g: on its error the
\* cleanup's pool, else the scope enters scopes with its gateway and pools.
addScopeGateway(sc, s, g, carved, released) ==
    IF g.err # ""
    THEN [err |-> g.err, scopes |-> sc, pool |-> released]
    ELSE [err |-> "",
          scopes |-> MapPut(sc, s.name, [s EXCEPT !.gateway = g.gateway, !.spaces = g.spaces]),
          pool |-> carved]

\* The pools of the scope after reservePools and the fixed reservations.
addScopePools(s, sp0) == [i \in 1..Len(sp0) |-> reserveFixed(sp0[i], s.subnet, s.dns, s.gateway)]

\* The part of addScope after reserveSubnet: carved is the default bridge
\* pool with the subnet carved from it (when it was), released the pool the
\* deferred cleanup leaves.
addScopeReserved(sc, s, carved, released) ==
    IF ~reservePoolsOK(NewAddressSpaceFromNetwork(s.subnet), s.spaces)
    THEN [err |-> "invalid pool", scopes |-> sc, pool |-> released]
    ELSE addScopeGateway(sc, s,
            reserveGateway(s.gateway, s.subnet,
                addScopePools(s, reservePools(NewAddressSpaceFromNetwork(s.subnet), s.spaces))),
            carved, released)

\* reserveSubnet's effect on the default bridge pool.
reserveSubnet(pl, subnet, defaultPool) == IF defaultPool THEN pl \cup {RangeOf(subnet)} ELSE pl

addScopeCarved(sc, s, defaultPool, carved) ==
    addScopeReserved(sc, s, carved, addScopeCleanup(carved, defaultPool, s.subnet))

addScope(sc, pl, s) ==
    IF s.name \in DOMAIN sc THEN [err |-> "duplicate", scopes |-> sc, pool |-> pl]
    ELSE IF IsUnspecifiedSubnet(s.subnet) THEN [err |-> "", scopes |-> MapPut(sc, s.name, s), pool |-> pl]
    ELSE IF checkNetOverlap(sc, s.subnet) THEN [err |-> "subnet overlaps", scopes |-> sc, pool |-> pl]
    ELSE addScopeCarved(sc, s, reserveSubnetFromPool(pl, s.subnet),
            reserveSubnet(pl, s.subnet, reserveSubnetFromPool(pl, s.subnet)))

newScopeCommon(sc, pl, id, scopeType, sd) ==
    IF \E i \in 1..Len(sd.pools) : ~ParseRangeOK(sd.pools[i])
    THEN [err |-> "invalid pool", scopes |-> sc, pool |-> pl]
    ELSE addScope(sc, pl, newScopeObject(id, scopeType, sd))

\* BridgeLink.AddrAdd / AddrDel on the set of the link's addresses.
AddrAdd(lk, a) == lk \cup {a}

AddrDel(lk, a) == lk \ {a}

GatewayAddr(s) == [ip |-> s.gateway, hb |-> s.subnet.hb]

\* The results of the scope constructors are [err, scopes, pool, link]: the
\* result r of newScopeCommon with the bridge link lk.
withLink(r, lk) == [err |-> r.err, scopes |-> r.scopes, pool |-> r.pool, link |-> lk]

\* The scope data of a bridge scope: without a subnet, the next free block of
\* the default bridge pool.
bridgeScopeData(pl, sd) ==
    IF IsUnspecifiedSubnet(sd.subnet)
    THEN [sd EXCEPT !.subnet = NextIP4Net(pl, BridgeWidthHostBits)]
    ELSE sd

\* The end of newBridgeScope: the gateway of the new scope joins the link.
newBridgeScopeLinked(r, lk, name) ==
    IF r.err # "" THEN withLink(r, lk)
    ELSE withLink(r, AddrAdd(lk, GatewayAddr(r.scopes[name])))

newBridgeScope(sc, pl, lk, id, sd) ==
    IF DefaultBridgeName \notin PortGroups
    THEN [err |-> "bridge network not set", scopes |-> sc, pool |-> pl, link |-> lk]
    ELSE IF IsUnspecifiedSubnet(sd.subnet) /\ ~NextIP4NetOK(pl, BridgeWidthHostBits)
    THEN [err |-> "pool exhausted", scopes |-> sc, pool |-> pl, link |-> lk]
    ELSE newBridgeScopeLinked(newScopeCommon(sc, pl, id, "bridge", bridgeScopeData(pl, sd)), lk, sd.name)

newExternalScope(sc, pl, lk, id, sd) ==
    IF Len(sd.pools) > 0 /\ (IsUnspecifiedSubnet(sd.subnet) \/ IsUnspecifiedIP(sd.gateway))
    THEN [err |-> "ipam without gateway and subnet", scopes |-> sc, pool |-> pl, link |-> lk]
    ELSE IF /\ ~IsUnspecifiedSubnet(sd.subnet)
            /\ (NetContains(BridgeIPRange, sd.subnet.ip) \/ NetContains(BridgeIPRange, highestIP4(sd.subnet)))
    THEN [err |-> "overlaps default bridge network", scopes |-> sc, pool |-> pl, link |-> lk]
    ELSE IF sd.name \notin PortGroups
    THEN [err |-> "no network info", scopes |-> sc, pool |-> pl, link |-> lk]
    ELSE withLink(newScopeCommon(sc, pl, id, "external", sd), lk)

newScope(sc, pl, lk, id, sd) ==
    IF sd.name = "" THEN [err |-> "empty name", scopes |-> sc, pool |-> pl, link |-> lk]
    ELSE IF sd.name \in DOMAIN sc THEN [err |-> "duplicate", scopes |-> sc, pool |-> pl, link |-> lk]
    ELSE IF sd.type = "bridge" THEN newBridgeScope(sc, pl, lk, id, sd)
    ELSE IF sd.type = "external" THEN newExternalScope(sc, pl, lk, id, sd)
    ELSE [err |-> "scope type not supported", scopes |-> sc, pool |-> pl, link |-> lk]

\* deleteScope: the gateway leaves the bridge link and the scope leaves scopes.
\* The result is [scopes, link]; the default bridge pool is not touched.
deleteScope(sc, lk, s) ==
    [scopes |-> MapDel(sc, s.name),
     link |-> IF s.type = "bridge" THEN AddrDel(lk, GatewayAddr(s)) ELSE lk]

\* The record a scope is persisted as (Scope.MarshalJSON).
MarshalJSON(s) ==
    [id |-> s.id, name |-> s.name, type |-> s.type, subnet |-> s.subnet, gateway |-> s.gateway,
     dns |-> s.dns, trust |-> s.trust, internal |-> s.internal,
     pools |-> [i \in 1..Len(s.spaces) |-> [first |-> s.spaces[i].first, last |-> s.spaces[i].last]]]

\* --------------------------------------------------------- scope lookup

\* uid.New draws a fresh identifier; the identifiers and their proper and
\* improper prefixes (strings.HasPrefix).
UIDs == {"a1", "a2", "a3", "b1", "b2", "b3"}

UIDPrefixes == [u \in UIDs |->
    IF u = "a1" THEN {"a", "a1"} ELSE IF u = "a2" THEN {"a", "a2"} ELSE IF u = "a3" THEN {"a", "a3"}
    ELSE IF u = "b1" THEN {"b", "b1"} ELSE IF u = "b2" THEN {"b", "b2"} ELSE {"b", "b3"}]

HasPrefix(u, s) == s \in UIDPrefixes[u]

FreshUIDs(sc) == UIDs \ {sc[n].id : n \in DOMAIN sc}

\* One fresh identifier, where the choice among them does not matter.
NewUID(sc) == CHOOSE u \in FreshUIDs(sc) : TRUE

\* A search that looks at the identifiers before the names.
findScopesIDFirst(sc, idName) ==
    IF idName = "default" THEN [err |-> "", found |-> {sc[DefaultBridgeName]}]
    ELSE LET ss == {sc[n] : n \in {m \in DOMAIN sc : HasPrefix(sc[m].id, idName)}} IN
         IF ss # {} THEN [err |-> "", found |-> ss]
         ELSE IF idName \in DOMAIN sc THEN [err |-> "", found |-> {sc[idName]}]
         ELSE [err |-> "not found", found |-> {}]

\* findScopes for a non-empty idName: the set of scopes found, or not found.
findScopes(sc, idName) ==
    IF idName = "default" THEN [err |-> "", found |-> {sc[DefaultBridgeName]}]
    ELSE IF idName \in DOMAIN sc THEN [err |-> "", found |-> {sc[idName]}]
    ELSE LET ss == {sc[n] : n \in {m \in DOMAIN sc : HasPrefix(sc[m].id, idName)}} IN
         IF ss # {} THEN [err |-> "", found |-> ss]
         ELSE [err |-> "not found", found |-> {}]

\* resolveScope: [err, ok, scope]; ok is FALSE when the call returns no scope,
\* which it does with an error or, when several scopes match, without one.
resolveFound(r) ==
    IF r.err # "" \/ Cardinality(r.found) # 1
    THEN [err |-> r.err, ok |-> FALSE, scope |-> [name |-> ""]]
    ELSE [err |-> "", ok |-> TRUE, scope |-> CHOOSE s \in r.found : TRUE]

resolveScope(sc, idName) == resolveFound(findScopes(sc, idName))

\* ------------------------------------------------------ the context's lock

\* The mutex holds the goroutine that locked it, or Unlocked.
Unlocked == "unlocked"

\* c.Lock(): returns once the mutex is free and then holds it for goroutine g.
Lock(m, g) == IF m = Unlocked THEN [ok |-> TRUE, mutex |-> g] ELSE [ok |-> FALSE, mutex |-> m]

\* An unlock that leaves the mutex held.
UnlockSkipped(m) == m
\* c.Unlock(), deferred by every public method right after c.Lock().
Unlock(m) == Unlocked

\* A call that no other call overlaps, from its c.Lock() to its deferred
\* c.Unlock(), with Held what it does in between.
Call(Held) ==
    /\ Lock(mutex, "caller").ok
    /\ Held
    /\ mutex' = Unlock(Lock(mutex, "caller").mutex)
    /\ UNCHANGED calls

\* ------------------------------------------------------ scope operations

\* What the last call was and returned: its error ("": none), for a bind or
\* unbind the endpoints it returned, the early return it took, if any, and for
\* a staging call the scope it asked for.
ResultAt(op, arg, err, ret, path) ==
    [op |-> op, arg |-> arg, err |-> err, ret |-> ret, path |-> path, req |-> ""]

\* The result of AddContainer or RemoveContainer of container cid for scope req.
Staged(op, cid, req, err) == [ResultAt(op, cid, err, {}, "") EXCEPT !.req = req]

Result(op, arg, err, ret) == ResultAt(op, arg, err, ret, "")

\* NewScope(ctx, scopeData): id is the identifier uid.New draws and putErr
\* tells whether the key/value store's Put fails (or the context is cancelled).
\* The rollback of NewScope after a failed Put: d is deleteScope's result on
\* the context r that newScope left.
NewScopeRollback(sd, r, d) ==
    /\ scopes' = d.scopes /\ link' = d.link /\ pool' = r.pool
    /\ last' = Result("NewScope", sd.name, "kv put failed", {})
    /\ UNCHANGED <<config, kv, containers, aliases, conEndpoints, handles>>

\* NewScope after newScope returned r.
NewScopeCreated(sd, r, putErr) ==
    IF r.err # ""
    THEN /\ scopes' = r.scopes /\ pool' = r.pool /\ link' = r.link
         /\ last' = Result("NewScope", sd.name, r.err, {})
         /\ UNCHANGED <<config, kv, containers, aliases, conEndpoints, handles>>
    ELSE IF putErr
    THEN NewScopeRollback(sd, r, deleteScope(r.scopes, r.link, r.scopes[sd.name]))
    ELSE /\ scopes' = r.scopes /\ pool' = r.pool /\ link' = r.link
         /\ kv' = MapPut(kv, sd.name, MarshalJSON(r.scopes[sd.name]))
         /\ last' = Result("NewScope", sd.name, "", {})
         /\ UNCHANGED <<config, containers, aliases, conEndpoints, handles>>

NewScope(sd, id, putErr) == Call(NewScopeCreated(sd, newScope(scopes, pool, link, id, sd), putErr))

\* A check that finds no scope in use.
hasActiveEndpointsNever(s) == FALSE

\* len(s.Endpoints()) != 0 of DeleteScope.
hasActiveEndpoints(s) == DOMAIN s.endpoints # {}

\* kvstore.ErrKeyNotFound, which the store's Delete answers for a key it does
\* not hold.
ErrKeyNotFound == "key not found"

\* A check that takes every answer but nil for a failure.
deleteFailedOnAny(err) == err # ""

\* err != nil && err != kvstore.ErrKeyNotFound of DeleteScope.
deleteFailed(err) == err # "" /\ err # ErrKeyNotFound

\* DeleteScope after resolveScope returned r; the result keeps what the
\* store's Delete answered as its path.
DeleteScopeResolved(name, delErr, r) ==
    IF r.err # "" THEN
        /\ last' = Result("DeleteScope", name, r.err, {})
        /\ UNCHANGED ctxVars /\ UNCHANGED handles
    ELSE IF ~r.ok THEN
        /\ last' = Result("DeleteScope", name, "not found", {})
        /\ UNCHANGED ctxVars /\ UNCHANGED handles
    ELSE IF r.scope.builtin THEN
        /\ last' = Result("DeleteScope", name, "cannot remove builtin scope", {})
        /\ UNCHANGED ctxVars /\ UNCHANGED handles
    ELSE IF hasActiveEndpoints(r.scope) THEN
        /\ last' = Result("DeleteScope", name, "active endpoints", {})
        /\ UNCHANGED ctxVars /\ UNCHANGED handles
    ELSE IF deleteFailed(delErr) THEN
        /\ last' = ResultAt("DeleteScope", name, delErr, {}, delErr)
        /\ UNCHANGED ctxVars /\ UNCHANGED handles
    ELSE
        /\ scopes' = deleteScope(scopes, link, r.scope).scopes
        /\ link' = deleteScope(scopes, link, r.scope).link
        /\ kv' = MapDel(kv, r.scope.name)
        /\ last' = ResultAt("DeleteScope", name, "", {}, delErr)
        /\ UNCHANGED <<config, pool, containers, aliases, conEndpoints, handles>>

\* DeleteScope(ctx, name): delErr is the outcome of the store's Delete.
DeleteScope(name, delErr) == Call(DeleteScopeResolved(name, delErr, resolveScope(scopes, name)))

\* ------------------------------------------------------------ construction

BridgeScopeData ==
    [name |-> DefaultBridgeName, type |-> "bridge", subnet |-> NoNet, gateway |-> NoIP,
     dns |-> <<>>, trust |-> "unspecified", pools |-> <<>>, internal |-> FALSE]

ExternalScopeData ==
    [name |-> ConfigExternal.name, type |-> ConfigExternal.type, subnet |-> ConfigExternal.subnet,
     gateway |-> ConfigExternal.gateway, dns |-> ConfigExternal.dns, trust |-> ConfigExternal.trust,
     pools |-> ConfigExternal.pools, internal |-> FALSE]

\* A construction that marks no scope builtin.
MarkBuiltinSkipped(sc, n) == sc

\* s.builtin = true of NewContext.
MarkBuiltin(sc, n) == [sc EXCEPT ![n].builtin = TRUE]

\* NewContext without persisted scopes: the builtin bridge scope, then the
\* builtin scope of the configured external network. [scopes, pool, link].
NewContextExternal(r2) ==
    [scopes |-> MarkBuiltin(r2.scopes, ConfigExternal.name), pool |-> r2.pool, link |-> r2.link]

NewContextBridge(r1, id2) ==
    NewContextExternal(newScope(MarkBuiltin(r1.scopes, DefaultBridgeName), r1.pool, r1.link, id2, ExternalScopeData))

NewContext(id1, id2) == NewContextBridge(newScope(EmptyMap, {}, {}, id1, BridgeScopeData), id2)

\* ---------------------------------------------- construction with a store

\* Whether a stored value deserializes into a scope (Scope.UnmarshalJSON).
UnmarshalJSONOK(v) == "name" \in DOMAIN v

\* The scope a stored record deserializes into, before its admission.
UnmarshalJSON(v) ==
    [id |-> v.id, name |-> v.name, type |-> v.type, subnet |-> v.subnet, gateway |-> v.gateway,
     dns |-> v.dns, trust |-> v.trust, internal |-> v.internal, builtin |-> FALSE,
     spaces |-> [i \in 1..Len(v.pools) |-> NewAddressSpaceFromRange(v.pools[i].first, v.pools[i].last)],
     endpoints |-> EmptyMap]

\* The port group a loaded scope is attached to: the bridge network's for a
\* bridge scope, the one of its own name for an external scope.
loadedPortGroup(s) == IF s.type = "bridge" THEN DefaultBridgeName ELSE IF s.type = "external" THEN s.name ELSE ""

\* A loader that hands the error of a rejected scope to NewContext's caller.
loadAdmittedOrFail(ctx, r) == [scopes |-> r.scopes, pool |-> r.pool, link |-> ctx.link, err |-> r.err]

\* The context after addScope returned r for a loaded scope: a rejected scope
\* is logged and skipped.
loadAdmitted(ctx, r) == [scopes |-> r.scopes, pool |-> r.pool, link |-> ctx.link, err |-> ctx.err]

\* The context under construction, with the error NewContext returns.
loading(ctx) == [scopes |-> ctx.scopes, pool |-> ctx.pool, link |-> ctx.link, err |-> ""]

\* One stored value v: skipped when it does not deserialize or its port group
\* is missing, else handed to addScope.
loadOne(ctx, v) ==
    IF ~UnmarshalJSONOK(v) THEN ctx
    ELSE IF loadedPortGroup(UnmarshalJSON(v)) \notin PortGroups THEN ctx
    ELSE loadAdmitted(ctx, addScope(ctx.scopes, ctx.pool, UnmarshalJSON(v)))

\* The loop over the listed values, in the order ord of their keys.
RECURSIVE loadAll(_, _, _, _)
loadAll(ctx, values, ord, i) ==
    IF i > Len(ord) THEN ctx
    ELSE loadAll(loadOne(ctx, values[ord[i]]), values, ord, i + 1)

\* NewContext with a store: the builtin scopes, then the stored scopes unless
\* the listing fails.
NewContextKV(id1, id2, values, ord, listErr) ==
    IF listErr THEN loading(NewContext(id1, id2))
    ELSE loadAll(loading(NewContext(id1, id2)), values, ord, 1)

\* The context is constructed anew over the same configuration and store.
RestartWith(ctx) ==
    /\ scopes' = ctx.scopes /\ pool' = ctx.pool /\ link' = ctx.link
    /\ containers' = EmptyMap /\ aliases' = EmptyMap
    /\ conEndpoints' = [c \in DOMAIN conEndpoints |-> {}]
    /\ last' = Result("NewContext", "", ctx.err, {})
    /\ UNCHANGED <<config, kv, handles>>
    /\ UNCHANGED lockVars

Restart(ids, ord, listErr) == RestartWith(NewContextKV(ids[1], ids[2], kv, ord, listErr))

\* ------------------------------------------------- containers and endpoints

\* The containers of the model, with the long form of each identifier and
\* its truncated (short) form.
LongID == [c \in {"c1", "c2", "c3"} |->
    IF c = "c1" THEN "c1c1c1c1" ELSE IF c = "c2" THEN "c2c2c2c2" ELSE "c3c3c3c3"]

Truncate == [c \in {"c1", "c2", "c3"} |->
    IF c = "c1" THEN "c1c1" ELSE IF c = "c2" THEN "c2c2" ELSE "c3c3"]

\* An endpoint of container cid on a scope is [ip, static, aliases, ports]:
\* aliases maps who to the sequence of alias names added for who.
newEndpoint(eip, static) == [ip |-> eip, static |-> static, aliases |-> EmptyMap, ports |-> {}]

\* Alias.scopedName and the names seeded for DNS lookup.
scopedName(sn, who, what) == sn \o ":" \o who \o "." \o what

lookupName(sn, n) == sn \o ":" \o n

\* The first of the scope's pools with a free address (0: none).
FirstWithNext(spaces) ==
    IF \E i \in 1..Len(spaces) : HasNextIP4(spaces[i])
    THEN SetMin({i \in 1..Len(spaces) : HasNextIP4(spaces[i])})
    ELSE 0

\* Scope.AddContainer(con, e): [err, scope].
ScopeAddContainer(s, cid, e) ==
    IF cid \in DOMAIN s.endpoints THEN [err |-> "duplicate", scope |-> s]
    ELSE IF isDynamic(s) THEN [err |-> "", scope |-> [s EXCEPT !.endpoints = MapPut(@, cid, e)]]
    ELSE IF IsUnspecifiedIP(e.ip) THEN
        LET i == FirstWithNext(s.spaces) IN
        IF i = 0 THEN [err |-> "pool exhausted", scope |-> s]
        ELSE LET a == NextIP4(s.spaces[i]) IN
             [err |-> "",
              scope |-> [s EXCEPT !.spaces[i] = ReserveIP4(@, a),
                                  !.endpoints = MapPut(@, cid, [e EXCEPT !.ip = a])]]
    ELSE
        LET i == FirstAccepting(s.spaces, e.ip) IN
        IF i = 0 THEN [err |-> "address not available", scope |-> s]
        ELSE [err |-> "",
              scope |-> [s EXCEPT !.spaces[i] = ReserveIP4(@, e.ip),
                                  !.endpoints = MapPut(@, cid, e)]]

\* Scope.RemoveContainer(con): [err, scope].
ScopeRemoveContainer(s, cid) ==
    IF cid \notin DOMAIN s.endpoints THEN [err |-> "not found", scope |-> s]
    ELSE LET e == s.endpoints[cid] IN
         [err |-> "",
          scope |-> [s EXCEPT
             !.spaces = IF isDynamic(s) \/ IsUnspecifiedIP(e.ip) THEN @
                        ELSE [i \in 1..Len(@) |-> IF e.ip \in SpaceAddrs(@[i]) THEN ReleaseIP4(@[i], e.ip) ELSE @[i]],
             !.endpoints = MapDel(@, cid)]]

\* Endpoint.addAlias(who, what): [bad, exists, endpoint].
addAlias(e, who, what) ==
    IF who = "" \/ what = "" THEN [bad |-> TRUE, exists |-> FALSE, endpoint |-> e]
    ELSE IF who \in DOMAIN e.aliases /\ \E i \in 1..Len(e.aliases[who]) : e.aliases[who][i] = what
    THEN [bad |-> FALSE, exists |-> TRUE, endpoint |-> e]
    ELSE [bad |-> FALSE, exists |-> FALSE,
          endpoint |-> [e EXCEPT !.aliases =
              MapPut(@, who, IF who \in DOMAIN @ THEN Append(@[who], what) ELSE <<what>>)]]

\* Endpoint.getAliases(who).
getAliases(e, who) == IF who \in DOMAIN e.aliases THEN e.aliases[who] ELSE <<>>

\* nat.ParsePortSpecs accepts a list of port specifications or fails.
ValidPortSpecs == {"80", "8080:80"}

ParsePortSpecsOK(ports) == \A i \in 1..Len(ports) : ports[i] \in ValidPortSpecs

\* strings.Contains(p, ":") on the port specifications of the model.
ContainsColon(p) == p \in {"8080:80"}

\* The port "num/proto" that a valid specification denotes.
ParsedPort == [p \in ValidPortSpecs |-> "80/tcp"]

\* ------------------------------------------------------------ BindContainer

\* Container.Endpoints: the endpoints the container object lists, eps being
\* the names of their scopes.
Endpoints(sc, eps, cid) ==
    {[scope |-> n, ep |-> sc[n].endpoints[cid]] :
        n \in {m \in eps : m \in DOMAIN sc /\ cid \in DOMAIN sc[m].endpoints}}

\* A lookup that finds no container.
containerNone(ctrs, cid) == [found |-> FALSE, con |-> ""]

\* A lookup that finds whichever container is indexed.
containerAny(ctrs, cid) ==
    IF DOMAIN ctrs # {} THEN [found |-> TRUE, con |-> ctrs[CHOOSE k \in DOMAIN ctrs : TRUE]]
    ELSE [found |-> FALSE, con |-> ""]

\* c.container(h): the container indexed under the handle's long identifier.
container(ctrs, cid) ==
    IF LongID[cid] \in DOMAIN ctrs THEN [found |-> TRUE, con |-> ctrs[LongID[cid]]]
    ELSE [found |-> FALSE, con |-> ""]

IsBoundNever(ctrs, cid) == FALSE
IsBound(ctrs, cid) == container(ctrs, cid).found

\* The loop over the aliases declared on one network endpoint. acc is
\* [e, al, bad]: the endpoint, the aliases to install, and whether an alias
\* did not split into who and what. An alias string is the sequence of its
\* colon-separated fields.
\* An alias that always refers to the container that declares it.
aliasContainerSelf(who, cid, cname, ctrs) == cid

\* The container an alias for who refers to ("": none is bound under who).
aliasContainer(who, cid, cname, ctrs) ==
    IF who # cname THEN (IF who \in DOMAIN ctrs THEN ctrs[who] ELSE "") ELSE cid

\* One alias who:what on the accumulator, r being addAlias's result and whoc
\* the container the alias refers to.
bindAlias(acc, r, whoc, scoped) ==
    IF r.bad \/ r.exists \/ whoc = ""
    THEN [acc EXCEPT !.e = r.endpoint]
    ELSE [acc EXCEPT !.e = r.endpoint, !.al = MapPut(@, scoped, whoc)]

aliasWho(a, cname) == IF a[1] = "" THEN cname ELSE a[1]

RECURSIVE bindAliases(_, _, _, _, _, _, _)
bindAliases(as, i, acc, sn, cid, cname, ctrs) ==
    IF i > Len(as) THEN acc
    ELSE IF Len(as[i]) # 2 THEN [acc EXCEPT !.bad = TRUE]
    ELSE bindAliases(as, i + 1,
             bindAlias(acc, addAlias(acc.e, aliasWho(as[i], cname), as[i][2]),
                       aliasContainer(aliasWho(as[i], cname), cid, cname, ctrs),
                       scopedName(sn, aliasWho(as[i], cname), as[i][2])),
             sn, cid, cname, ctrs)

\* The aliases other containers' endpoints on scope s hold for the name cname.
aliasesFromOthers(s, cid, cname) ==
    UNION {{scopedName(s.name, cname, getAliases(s.endpoints[o], cname)[i]) :
              i \in 1..Len(getAliases(s.endpoints[o], cname))} : o \in (DOMAIN s.endpoints) \ {cid}}

\* One iteration of bindContainer's loop, for the endpoint declared on scope
\* sn. st is [scopes, nets, al, defaultMarked, deferred, rollback, err, eps]:
\* rollback tells whether the err variable the deferred cleanups read is set
\* (it is before the first Scope.AddContainer succeeds and after one fails),
\* err is the error the call returns ("": none so far).
\* The address the endpoint asks for: the static one, else the one the guest
\* reported, else none.
endpointIP(ne) ==
    IF ne.static THEN ne.ip
    ELSE IF ~IsUnspecifiedIP(ne.assigned) THEN ne.assigned ELSE NoIP

\* Whether this iteration marks its endpoint as the default one.
markNow(st, sn) == ~st.defaultMarked /\ st.scopes[sn].type = "external"

\* The declared endpoint after the iteration: its address and default flag.
boundNetwork(st, sn, e) ==
    [st.nets[sn] EXCEPT !.ip = IF IsUnspecifiedIP(e.ip) THEN @ ELSE e.ip,
                        !.default = IF st.scopes[sn].internal THEN FALSE
                                    ELSE IF markNow(st, sn) THEN TRUE ELSE @]

\* The end of the iteration: r is the result of the alias loop, s2 the scope
\* with the endpoint it left, others the aliases other containers hold for
\* this one.
bindOneAliased(st, sn, cid, r, s2, others) ==
    IF r.bad
    THEN [st EXCEPT !.deferred = Append(@, sn), !.rollback = FALSE, !.scopes[sn] = s2,
                    !.nets[sn] = boundNetwork(st, sn, r.e), !.defaultMarked = @ \/ markNow(st, sn),
                    !.err = "parsing network alias failed"]
    ELSE [st EXCEPT !.deferred = Append(@, sn), !.rollback = FALSE, !.scopes[sn] = s2,
                    !.nets[sn] = boundNetwork(st, sn, r.e), !.defaultMarked = @ \/ markNow(st, sn),
                    !.al = [k \in (DOMAIN r.al) \cup others |-> IF k \in others THEN cid ELSE r.al[k]],
                    !.eps = Append(@, sn)]

bindOneScoped(st, sn, cid, cname, r, s2) ==
    bindOneAliased(st, sn, cid, r, s2, aliasesFromOthers(s2, cid, cname))

\* The endpoint Scope.AddContainer made, with the ports of the declaration.
withPorts(e, ports) == [e EXCEPT !.ports = {ParsedPort[ports[i]] : i \in 1..Len(ports)}]

\* The names every bound endpoint is looked up by on scope sn.
lookupAliases(al, sn, cid, cname) ==
    MapPut(MapPut(al, lookupName(sn, cname), cid), lookupName(sn, Truncate[cid]), cid)

bindOnePorts(st, sn, cid, cname, a, r) ==
    bindOneScoped(st, sn, cid, cname, r, [a.scope EXCEPT !.endpoints[cid] = r.e])

\* The iteration after Scope.AddContainer returned a.
bindOneAdded(st, sn, cid, cname, ctrs, a) ==
    IF a.err # "" THEN [st EXCEPT !.deferred = Append(@, sn), !.rollback = TRUE, !.err = a.err]
    ELSE IF ~ParsePortSpecsOK(st.nets[sn].ports)
    THEN [st EXCEPT !.deferred = Append(@, sn), !.rollback = FALSE, !.scopes[sn] = a.scope,
                    !.err = "invalid port"]
    ELSE bindOnePorts(st, sn, cid, cname, a,
             bindAliases(st.nets[sn].aliases, 1,
                 [e |-> withPorts(a.scope.endpoints[cid], st.nets[sn].ports),
                  al |-> lookupAliases(st.al, sn, cid, cname), bad |-> FALSE],
                 sn, cid, cname, ctrs))

bindOne(st, sn, cid, cname, ctrs) ==
    IF sn \notin DOMAIN st.scopes THEN [st EXCEPT !.err = "network not found"]
    ELSE bindOneAdded(st, sn, cid, cname, ctrs,
             ScopeAddContainer(st.scopes[sn], cid, newEndpoint(endpointIP(st.nets[sn]), st.nets[sn].static)))

RECURSIVE bindLoop(_, _, _, _, _, _)
bindLoop(ord, i, st, cid, cname, ctrs) ==
    IF i > Len(ord) \/ st.err # "" THEN st
    ELSE bindLoop(ord, i + 1, bindOne(st, ord[i], cid, cname, ctrs), cid, cname, ctrs)

\* Cleanups that remove nothing.
bindCleanupSkipped(sc, deferred, i, cid) == sc

\* The deferred cleanups of a failed call: each removes the container from the
\* scope of its iteration when the err variable they read is set.
RECURSIVE bindCleanup(_, _, _, _)
bindCleanup(sc, deferred, i, cid) ==
    IF i > Len(deferred) THEN sc
    ELSE bindCleanup([sc EXCEPT ![deferred[i]] = ScopeRemoveContainer(@, cid).scope], deferred, i + 1, cid)

\* The election of a default network when no external one was marked: the
\* first endpoint, in iteration order ord2, whose scope is not internal.
electDefault(nets, sc, ord2) ==
    LET ok == {i \in 1..Len(ord2) : ~(ord2[i] \in DOMAIN sc /\ sc[ord2[i]].internal)} IN
    IF ok = {} THEN nets ELSE [nets EXCEPT ![ord2[SetMin(ok)]].default = TRUE]

\* The installation of the aliases of one bind into c.aliases.
installAliases(als, al) ==
    [k \in (DOMAIN als) \cup (DOMAIN al) |->
        IF k \notin DOMAIN al THEN als[k]
        ELSE IF k \notin DOMAIN als THEN <<al[k]>>
        ELSE IF \E i \in 1..Len(als[k]) : als[k][i] = al[k] THEN als[k]
        ELSE Append(als[k], al[k])]

installContainer(ctrs, cid, cname) ==
    MapPut(MapPut(MapPut(ctrs, LongID[cid], cid), Truncate[cid], cid), cname, cid)

\* BindContainer(h) for the handle of container cid; ord is the order in which
\* the handle's networks are visited, ord2 that of the default election.
\* The state bindContainer's loop starts from.
bindStart(sc, nets) ==
    [scopes |-> sc, nets |-> nets, al |-> EmptyMap, defaultMarked |-> FALSE,
     deferred |-> <<>>, rollback |-> TRUE, err |-> "", eps |-> <<>>]

\* bindContainer after its loop left st.
BindContainerLooped(cid, ord2, st) ==
    IF st.err # "" THEN
        /\ scopes' = IF st.rollback THEN bindCleanup(st.scopes, st.deferred, 1, cid) ELSE st.scopes
        /\ handles' = [handles EXCEPT ![cid].networks = st.nets]
        /\ last' = Result("BindContainer", cid, st.err, {})
        /\ UNCHANGED <<config, pool, kv, link, containers, aliases, conEndpoints>>
    ELSE
        /\ scopes' = st.scopes
        /\ handles' = [handles EXCEPT ![cid].networks =
                          IF st.defaultMarked THEN st.nets ELSE electDefault(st.nets, st.scopes, ord2)]
        /\ containers' = installContainer(containers, cid, handles[cid].name)
        /\ aliases' = installAliases(aliases, st.al)
        /\ conEndpoints' = [conEndpoints EXCEPT ![cid] = {st.eps[i] : i \in 1..Len(st.eps)}]
        /\ last' = Result("BindContainer", cid, "",
                          {[scope |-> st.eps[i], ep |-> st.scopes[st.eps[i]].endpoints[cid]] : i \in 1..Len(st.eps)})
        /\ UNCHANGED <<config, pool, kv, link>>

\* bindContainer after the lookup c of the handle's container.
BindContainerFound(cid, ord, ord2, c) ==
    IF c.found THEN
        /\ last' = ResultAt("BindContainer", cid, "", Endpoints(scopes, conEndpoints[c.con], c.con), "already bound")
        /\ UNCHANGED ctxVars /\ UNCHANGED handles
    ELSE BindContainerLooped(cid, ord2,
             bindLoop(ord, 1, bindStart(scopes, handles[cid].networks), cid, handles[cid].name, containers))

BindContainer(cid, ord, ord2) == Call(BindContainerFound(cid, ord, ord2, container(containers, cid)))

\* ---------------------------------------------------------- UnbindContainer

\* Every scoped name of the aliases an endpoint holds.
endpointAliasNames(sn, e) ==
    UNION {{scopedName(sn, who, e.aliases[who][i]) : i \in 1..Len(e.aliases[who])} : who \in DOMAIN e.aliases}

\* One iteration of UnbindContainer's loop. st is [scopes, nets, rm, eps, err]:
\* rm collects the alias names to purge, eps the copies of the endpoints.
\* The iteration for endpoint e, s2 being the scope without the container.
unbindOneRemoved(st, sn, con, cname, e, s2) ==
    [st EXCEPT !.scopes[sn] = s2,
               !.nets[sn].assigned = NoIP,
               !.rm = @ \cup {lookupName(sn, cname), lookupName(sn, Truncate[con])}
                        \cup endpointAliasNames(sn, e) \cup aliasesFromOthers(s2, con, cname),
               !.eps = @ \cup {[scope |-> sn, ep |-> e]}]

unbindOne(st, sn, con, cname) ==
    IF sn \notin DOMAIN st.scopes THEN [st EXCEPT !.err = "not found"]
    ELSE IF con \notin DOMAIN st.scopes[sn].endpoints THEN [st EXCEPT !.err = "no endpoint"]
    ELSE unbindOneRemoved(st, sn, con, cname, st.scopes[sn].endpoints[con],
             ScopeRemoveContainer(st.scopes[sn], con).scope)

RECURSIVE unbindLoop(_, _, _, _, _)
unbindLoop(ord, i, st, con, cname) ==
    IF i > Len(ord) \/ st.err # "" THEN st
    ELSE unbindLoop(ord, i + 1, unbindOne(st, ord[i], con, cname), con, cname)

\* The sequence q without its elements equal to x.
SeqWithout(q, x) == SelectSeq(q, LAMBDA y : y # x)

\* The purge of container con from the alias lists named in rm; a list left
\* empty is deleted.
removeAliases(als, rm, con) ==
    [k \in {a \in DOMAIN als : ~(a \in rm /\ SeqWithout(als[a], con) = <<>>)} |->
        IF k \in rm THEN SeqWithout(als[k], con) ELSE als[k]]

removeContainerKeys(ctrs, con, cname) == MapDel(MapDel(MapDel(ctrs, LongID[con]), Truncate[con]), cname)

\* The state UnbindContainer's loop starts from.
unbindStart(sc, nets) == [scopes |-> sc, nets |-> nets, rm |-> {}, eps |-> {}, err |-> ""]

\* The scopes of the endpoints the loop removed from the container object.
removedEndpoints(st) == {e.scope : e \in st.eps}

\* UnbindContainer of container object con after its loop left st.
UnbindContainerLooped(cid, con, st) ==
    IF st.err # "" THEN
        /\ scopes' = st.scopes
        /\ handles' = [handles EXCEPT ![cid].networks = st.nets]
        /\ conEndpoints' = [conEndpoints EXCEPT ![con] = @ \ removedEndpoints(st)]
        /\ last' = Result("UnbindContainer", cid, st.err, {})
        /\ UNCHANGED <<config, pool, kv, link, containers, aliases>>
    ELSE
        /\ scopes' = st.scopes
        /\ handles' = [handles EXCEPT ![cid].networks = st.nets]
        /\ aliases' = removeAliases(aliases, st.rm, con)
        /\ containers' = removeContainerKeys(containers, con, handles[con].name)
        /\ conEndpoints' = [conEndpoints EXCEPT ![con] = @ \ removedEndpoints(st)]
        /\ last' = Result("UnbindContainer", cid, "", st.eps)
        /\ UNCHANGED <<config, pool, kv, link>>

\* UnbindContainer after the lookup c of the handle's container.
UnbindContainerFound(cid, ord, c) ==
    IF ~c.found THEN
        /\ last' = ResultAt("UnbindContainer", cid, "", {}, "not bound")
        /\ UNCHANGED ctxVars /\ UNCHANGED handles
    ELSE UnbindContainerLooped(cid, c.con,
             unbindLoop(ord, 1, unbindStart(scopes, handles[cid].networks), c.con, handles[c.con].name))

UnbindContainer(cid, ord) == Call(UnbindContainerFound(cid, ord, container(containers, cid)))

\* ------------------------------------------------- AddContainer (staging)

\* The PCI slot window of the NICs.
pciSlotNumberBegin == 192

pciSlotNumberEnd == 1024

pciSlotNumberInc == 32

Slots == {n \in pciSlotNumberBegin..(pciSlotNumberEnd - 1) : (n - pciSlotNumberBegin) % pciSlotNumberInc = 0}

\* strconv.Itoa on the slot numbers and atoiOrZero on endpoint identifiers.
Itoa(n) ==
    IF n = 192 THEN "192" ELSE IF n = 224 THEN "224" ELSE IF n = 256 THEN "256"
    ELSE IF n = 288 THEN "288" ELSE IF n = 0 THEN "0" ELSE "other"

atoiOrZero(a) ==
    IF a = "192" THEN 192 ELSE IF a = "224" THEN 224 ELSE IF a = "256" THEN 256
    ELSE IF a = "288" THEN 288 ELSE 0

\* Scope.Network: the port group that backs a scope.
NetworkOf(s) == IF s.type = "bridge" THEN DefaultBridgeName ELSE s.name

\* A handle is [name, networks, devs]: the container's name, the declared
\* endpoints by scope name (ExecConfig.Networks) and the device changes of
\* its spec, each [op, network, slot]. A declared endpoint is
\* [id, static, ip, assigned, aliases, ports, default].

\* The check that a container joins at most one external scope, visiting the
\* declared networks in order ord: "" when it passes.
\* A check that lets every container join every external scope.
externalCheckSkipped(sc, ord, i) == ""

RECURSIVE externalCheck(_, _, _)
externalCheckResolved(sc, ord, i, r) ==
    IF ~r.ok THEN "nil scope dereferenced"
    ELSE IF r.scope.type = "external" THEN "at most one mapped network"
    ELSE externalCheck(sc, ord, i + 1)

externalCheck(sc, ord, i) ==
    IF i > Len(ord) THEN ""
    ELSE externalCheckResolved(sc, ord, i, resolveScope(sc, ord[i]))

\* The search for a NIC to reuse, visiting the declared networks in order
\* ord: [err, slot], slot 0 when there is none.
RECURSIVE findBridgeSlot(_, _, _, _)
\* A search that never finds a NIC to share.
findBridgeSlotNone(sc, nets, ord, i, r) == [err |-> r.err, slot |-> 0]

findBridgeSlotResolved(sc, nets, ord, i, r) ==
    IF r.err # "" THEN [err |-> r.err, slot |-> 0]
    ELSE IF ~r.ok THEN [err |-> "nil scope dereferenced", slot |-> 0]
    ELSE IF r.scope.type # "bridge" THEN findBridgeSlot(sc, nets, ord, i + 1)
    ELSE IF nets[ord[i]].id # "" /\ atoiOrZero(nets[ord[i]].id) # 0
    THEN [err |-> "", slot |-> atoiOrZero(nets[ord[i]].id)]
    ELSE findBridgeSlot(sc, nets, ord, i + 1)

findBridgeSlot(sc, nets, ord, i) ==
    IF i > Len(ord) THEN [err |-> "", slot |-> 0]
    ELSE findBridgeSlotResolved(sc, nets, ord, i, resolveScope(sc, ord[i]))

\* addEthernetCard(h, s): [slot, devs]. A pending add of a NIC on the scope's
\* network is reused; otherwise a new card gets the lowest slot that no
\* declared endpoint and no device of the spec holds, and its add is appended.
addEthernetCard(h, s) ==
    LET pending == {i \in 1..Len(h.devs) : h.devs[i].op = "add" /\ h.devs[i].network = NetworkOf(s)}
        taken == {atoiOrZero(h.networks[n].id) : n \in DOMAIN h.networks} \cup {h.devs[i].slot : i \in 1..Len(h.devs)}
        slot == SetMin(Slots \ taken)
    IN IF pending # {} THEN [slot |-> h.devs[SetMin(pending)].slot, devs |-> h.devs]
       ELSE [slot |-> slot, devs |-> Append(h.devs, [op |-> "add", network |-> NetworkOf(s), slot |-> slot])]

\* A call that returns error e and changes nothing.
Fails(op, cid, req, e) ==
    /\ last' = Staged(op, cid, req, e)
    /\ UNCHANGED ctxVars /\ UNCHANGED handles

\* The endpoint AddContainer declares on the handle, on the NIC in pciSlot.
newNetworkEndpoint(options, pciSlot) ==
    [id |-> Itoa(pciSlot), static |-> ~IsUnspecifiedIP(options.ip), ip |-> options.ip,
     assigned |-> NoIP, aliases |-> options.aliases, ports |-> options.ports, default |-> FALSE]

\* An end of AddContainer that reserves an address of the scope's first pool
\* for the endpoint it declares.
AddContainerCardReserving(cid, options, s, reuse, card) ==
    /\ handles' = [handles EXCEPT
          ![cid].networks = MapPut(@, s.name,
                                newNetworkEndpoint(options, IF reuse.slot # 0 THEN reuse.slot ELSE card.slot)),
          ![cid].devs = IF reuse.slot # 0 THEN @ ELSE card.devs]
    /\ scopes' = [scopes EXCEPT ![s.name].spaces =
          IF Len(@) > 0 /\ HasNextIP4(@[1]) THEN [@ EXCEPT ![1] = ReserveIP4(@, NextIP4(@))] ELSE @]
    /\ last' = Staged("AddContainer", cid, options.scope, "")
    /\ UNCHANGED <<config, pool, kv, link, containers, aliases, conEndpoints>>

\* The end of AddContainer: the NIC of slot reuse is shared when there is one,
\* else card is the result of addEthernetCard.
AddContainerCard(cid, options, s, reuse, card) ==
    /\ handles' = [handles EXCEPT
          ![cid].networks = MapPut(@, s.name,
                                newNetworkEndpoint(options, IF reuse.slot # 0 THEN reuse.slot ELSE card.slot)),
          ![cid].devs = IF reuse.slot # 0 THEN @ ELSE card.devs]
    /\ last' = Staged("AddContainer", cid, options.scope, "")
    /\ UNCHANGED ctxVars

\* AddContainer after the search reuse for a NIC to share.
AddContainerReuse(cid, options, s, reuse) ==
    IF reuse.err # "" THEN Fails("AddContainer", cid, options.scope, reuse.err)
    ELSE AddContainerCard(cid, options, s, reuse, addEthernetCard(handles[cid], s))

\* A check of the ports that refuses none.
checkPortsSkipped(s, ports) == ""

\* The checks of the requested ports on an external scope s: no port mapping,
\* and no port at all behind the closed firewall. The error, or "".
checkPorts(s, ports) ==
    IF s.type = "external" /\ \E i \in 1..Len(ports) : ContainsColon(ports[i])
    THEN "external scope includes a port mapping"
    ELSE IF s.type = "external" /\ Len(ports) > 0 /\ s.trust = "closed"
    THEN "ports cannot be published via closed firewall"
    ELSE ""

\* AddContainer on scope s after the checks of the ports returned perr.
AddContainerPorts(cid, options, ord, s, perr) ==
    IF perr # "" THEN Fails("AddContainer", cid, options.scope, perr)
    ELSE AddContainerReuse(cid, options, s,
             IF s.type = "bridge" THEN findBridgeSlot(scopes, handles[cid].networks, ord, 1)
             ELSE [err |-> "", slot |-> 0])

\* AddContainer on scope s after the external check returned ext.
AddContainerChecked(cid, options, ord, s, ext) ==
    IF ext # "" THEN Fails("AddContainer", cid, options.scope, ext)
    ELSE AddContainerPorts(cid, options, ord, s, checkPorts(s, options.ports))

\* AddContainer after resolveScope returned r.
AddContainerResolved(cid, options, ord, r) ==
    IF r.err # "" THEN Fails("AddContainer", cid, options.scope, r.err)
    ELSE IF ~r.ok THEN Fails("AddContainer", cid, options.scope, "nil scope dereferenced")
    ELSE IF r.scope.name \in DOMAIN handles[cid].networks THEN
        /\ last' = Staged("AddContainer", cid, options.scope, "")
        /\ UNCHANGED ctxVars /\ UNCHANGED handles
    ELSE AddContainerChecked(cid, options, ord, r.scope,
             IF r.scope.type = "external" THEN externalCheck(scopes, ord, 1) ELSE "")

\* AddContainer(h, options) for the handle of container cid; ord is the order
\* in which the handle's networks are visited.
AddContainer(cid, options, ord) ==
    Call(AddContainerResolved(cid, options, ord, resolveScope(scopes, options.scope)))

\* Whether no other declared endpoint of handle h shares the NIC of scope sn.
removeNICAlways(h, sn) == TRUE
removeNIC(h, sn) == \A n \in (DOMAIN h.networks) \ {sn} : h.networks[n].id # h.networks[sn].id

\* RemoveContainer after resolveScope returned r.
RemoveContainerResolved(cid, scope, r) ==
    IF IsBound(containers, cid) THEN Fails("RemoveContainer", cid, scope, "container is bound")
    ELSE IF r.err # "" THEN Fails("RemoveContainer", cid, scope, r.err)
    ELSE IF ~r.ok THEN Fails("RemoveContainer", cid, scope, "nil scope dereferenced")
    ELSE IF r.scope.name \notin DOMAIN handles[cid].networks
    THEN Fails("RemoveContainer", cid, scope, "not part of network")
    ELSE
        /\ handles' = [handles EXCEPT
              ![cid].networks = MapDel(@, r.scope.name),
              ![cid].devs = IF removeNIC(handles[cid], r.scope.name)
                            THEN Append(@, [op |-> "remove", network |-> NetworkOf(r.scope), slot |-> 0])
                            ELSE @]
        /\ last' = Staged("RemoveContainer", cid, scope, "")
        /\ UNCHANGED ctxVars

\* RemoveContainer(h, scope) for the handle of container cid.
RemoveContainer(cid, scope) == Call(RemoveContainerResolved(cid, scope, resolveScope(scopes, scope)))

\* The guest reports the address it holds on a network (Assigned.IP), as a
\* handle of a running container carries it after a restart of the context.
Assign(cid, sn, a) ==
    /\ sn \in DOMAIN handles[cid].networks
    /\ ~IsBound(containers, cid)
    /\ handles[cid].networks[sn].assigned # a
    /\ handles' = [handles EXCEPT ![cid].networks[sn].assigned = a]
    /\ last' = Result("Assign", cid, "", {})
    /\ UNCHANGED ctxVars /\ UNCHANGED lockVars

\* --------------------------------------------------- binds one after another

\* The indexes and scopes of the context after a bind whose loop left st, for
\* a bind that succeeds; err tells of one that does not.
bindIntoLooped(ctx, cid, cname, st) ==
    IF st.err # "" THEN [ctx EXCEPT !.err = st.err]
    ELSE [scopes |-> st.scopes,
          containers |-> installContainer(ctx.containers, cid, cname),
          aliases |-> installAliases(ctx.aliases, st.al),
          err |-> ctx.err]

\* The context [scopes, containers, aliases, err] after bindContainer of the
\* handle hs[cid], which is not bound, visiting its networks in order ord.
bindInto(ctx, hs, cid, ord) ==
    bindIntoLooped(ctx, cid, hs[cid].name,
        bindLoop(ord, 1, bindStart(ctx.scopes, hs[cid].networks), cid, hs[cid].name, ctx.containers))

\* ------------------------------------------------------------------ lookups

\* ContainersByAlias(alias): the list c.aliases holds for the name, or none.
ContainersByAlias(als, alias) == IF alias \in DOMAIN als THEN als[alias] ELSE <<>>

\* ------------------------------------------------------------ specifications

\* The names NewScope is called with: the first MaxUserScopes of these, the
\* empty name and the names of the builtin scopes.
UserScopeNames == <<"net1", "ext1", "net2", "net3">>

ScopeNames == {UserScopeNames[i] : i \in 1..MaxUserScopes}

\* The goroutines that call into the context, and a goroutine in no call.
Goroutines == {"g1", "g2"}

Idle == [pc |-> "idle", op |-> ""]

\* The state after NewContext returned ctx, with a handle for each container
\* of cids, named as one of names tells.
InitConfigured(cfg, ctx, cids, names) ==
    /\ config = cfg
    /\ scopes = ctx.scopes
    /\ pool = ctx.pool
    /\ link = ctx.link
    /\ kv = EmptyMap
    /\ containers = EmptyMap
    /\ aliases = EmptyMap
    /\ conEndpoints = [c \in cids |-> {}]
    /\ handles \in {[c \in cids |-> [name |-> nm[c], networks |-> EmptyMap, devs |-> <<>>]] : nm \in names}
    /\ last = Result("NewContext", "", "", {})
    /\ mutex = Unlocked
    /\ calls = [g \in Goroutines |-> Idle]

InitFrom(ctx, cids, names) == InitConfigured(Configuration(DefaultBridgeRange), ctx, cids, names)

InitWith(cids, names, ids) == InitFrom(NewContext(ids[1], ids[2]), cids, names)

\* --- the scope operations alone, over a wide range of scope data

\* Subnets: none; free in the pool; containing, and inside, the builtin bridge
\* scope's subnet; outside the pool (20..23) and around that one (16..31);
\* containing the builtin external scope's subnet; containing the pool.
SubnetChoices ==
    {NoNet, [ip |-> 40, hb |-> 3], [ip |-> 32, hb |-> 4], [ip |-> 34, hb |-> 1],
     [ip |-> 20, hb |-> 2], [ip |-> 16, hb |-> 4], [ip |-> 8, hb |-> 3], [ip |-> 32, hb |-> 5]}

\* A pool string that parses to the range first..lst, and one that does not parse.
PoolOf(first, lst) == <<[valid |-> TRUE, first |-> first, last |-> lst]>>

PoolUnparsable == <<[valid |-> FALSE, first |-> 0, last |-> 0]>>

\* A shape is <<subnet, gateway, dns, pools>>. For bridge scopes: every subnet
\* with nothing else; and on 40..47, the all-zeros address as gateway, a
\* gateway with a pool, a pool reaching beyond the subnet, a pool that is the
\* all-zeros address alone, an unparsable pool, and DNS servers.
BridgeShapes ==
    {<<n, NoIP, <<>>, <<>>>> : n \in SubnetChoices} \cup
    {<<[ip |-> 40, hb |-> 3], 40, <<>>, <<>>>>,
     <<[ip |-> 40, hb |-> 3], 41, <<>>, PoolOf(41, 42)>>,
     <<[ip |-> 40, hb |-> 3], NoIP, <<>>, PoolOf(42, 48)>>,
     <<[ip |-> 40, hb |-> 3], NoIP, <<>>, PoolOf(40, 40)>>,
     <<[ip |-> 40, hb |-> 3], NoIP, <<>>, PoolUnparsable>>,
     <<[ip |-> 40, hb |-> 3], NoIP, <<41, 60>>, <<>>>>}

\* For external scopes: no subnet; subnets outside the pool, around the builtin
\* external scope's and inside the pool, with a gateway; and on 20..23 a pool
\* with and without a gateway, and the all-zeros address as gateway.
ExternalShapes ==
    {<<NoNet, NoIP, <<>>, <<>>>>,
     <<[ip |-> 20, hb |-> 2], 21, <<>>, <<>>>>,
     <<[ip |-> 16, hb |-> 4], 17, <<>>, <<>>>>,
     <<[ip |-> 8, hb |-> 3], 9, <<>>, <<>>>>,
     <<[ip |-> 40, hb |-> 3], 41, <<>>, <<>>>>,
     <<[ip |-> 20, hb |-> 2], 21, <<>>, PoolOf(21, 22)>>,
     <<[ip |-> 20, hb |-> 2], NoIP, <<>>, PoolOf(21, 22)>>,
     <<[ip |-> 20, hb |-> 2], 20, <<>>, <<>>>>}

ScopeData(nm, ty, shape) ==
    [name |-> nm, type |-> ty, subnet |-> shape[1], gateway |-> shape[2], dns |-> shape[3],
     pools |-> shape[4], trust |-> "published", internal |-> FALSE]

\* Bridge scopes under the names without a port group of their own, external
\* scopes under the names with one; and an external scope without a port
\* group, an empty name and an unsupported type.
ScopeInputs ==
    {ScopeData(nm, "bridge", shape) : nm \in ScopeNames \ PortGroups, shape \in BridgeShapes}
    \cup {ScopeData(nm, "external", shape) : nm \in ScopeNames \cap PortGroups, shape \in ExternalShapes}
    \cup {ScopeData(UserScopeNames[1], "external", <<NoNet, NoIP, <<>>, <<>>>>),
          ScopeData("", "bridge", <<NoNet, NoIP, <<>>, <<>>>>),
          ScopeData(UserScopeNames[1], "macvlan", <<NoNet, NoIP, <<>>, <<>>>>)}

\* The names DeleteScope is called with: the user scopes' and the default
\* scope's, identifier prefixes and a name nothing matches.
LookupNames == ScopeNames \cup {"default", "a", "a2", "zz"}

InitScopes == InitWith({}, {EmptyMap}, <<"a1", "b1">>)

NextScopes ==
    \/ \E sd \in ScopeInputs, putErr \in BOOLEAN :
          \* a call with a name in use fails on the name alone: one such call per name
          /\ sd.name \in DOMAIN scopes => (IsUnspecifiedSubnet(sd.subnet) /\ IsUnspecifiedIP(sd.gateway) /\ ~putErr)
          /\ NewScope(sd, NewUID(scopes), putErr)
    \/ \E n \in LookupNames, delErr \in {"", "io"} : DeleteScope(n, delErr)

SpecScopes == InitScopes /\ [][NextScopes]_vars

\* --- the scope operations and restarts of the context over its store

NextRestart ==
    \/ NextScopes
    \/ \E ord \in Orders(DOMAIN kv) : Restart(<<"a1", "b1">>, ord, FALSE)

SpecRestart == InitScopes /\ [][NextRestart]_vars

\* --- the scope operations under a bridge pool in the middle of the addresses

\* A configured bridge range that larger networks contain on both sides: 80..95.
PoolBridgeRange == [ip |-> 80, hb |-> 4]

\* External scopes on a subnet inside the pool (88..91), equal to it (80..95),
\* containing it up to its last address (64..95), containing it on both sides
\* (64..127), away from it (20..23), and without a subnet; bridge scopes on a
\* subnet of the pool, chosen or given, and away from it.
PoolScopeInputs ==
    {ScopeData("ext1", "external", <<[ip |-> 88, hb |-> 2], 89, <<>>, <<>>>>),
     ScopeData("ext1", "external", <<[ip |-> 80, hb |-> 4], 81, <<>>, <<>>>>),
     ScopeData("ext1", "external", <<[ip |-> 64, hb |-> 5], 65, <<>>, <<>>>>),
     ScopeData("ext1", "external", <<[ip |-> 64, hb |-> 6], 65, <<>>, <<>>>>),
     ScopeData("ext1", "external", <<[ip |-> 20, hb |-> 2], 21, <<>>, <<>>>>),
     ScopeData("ext1", "external", <<NoNet, NoIP, <<>>, <<>>>>),
     ScopeData("net1", "bridge", <<NoNet, NoIP, <<>>, <<>>>>),
     ScopeData("net1", "bridge", <<[ip |-> 88, hb |-> 3], NoIP, <<>>, <<>>>>),
     ScopeData("net1", "bridge", <<[ip |-> 88, hb |-> 3], 90, <<>>, <<>>>>),
     ScopeData("net1", "bridge", <<[ip |-> 40, hb |-> 3], NoIP, <<>>, <<>>>>),
     ScopeData("net1", "bridge", <<[ip |-> 16, hb |-> 4], NoIP, <<>>, <<>>>>)}

InitPool == InitConfigured(Configuration(PoolBridgeRange), NewContext("a1", "b1"), {}, {EmptyMap})

NextPool ==
    \/ \E sd \in PoolScopeInputs, putErr \in BOOLEAN : NewScope(sd, NewUID(scopes), putErr)
    \/ \E n \in {"ext1", "net1", "a2"}, delErr \in {"", "io"} : DeleteScope(n, delErr)

SpecPool == InitPool /\ [][NextPool]_vars

\* --- restarts over a store that holds records the context cannot load

\* The scopes created at run time: a bridge scope on a subnet of the pool or
\* on 16..31, an external scope on 20..23 or without a subnet.
RecoverScopeInputs ==
    {ScopeData("net1", "bridge", <<NoNet, NoIP, <<>>, <<>>>>),
     ScopeData("net1", "bridge", <<[ip |-> 16, hb |-> 4], NoIP, <<>>, <<>>>>),
     ScopeData("ext1", "external", <<[ip |-> 20, hb |-> 2], 21, <<>>, <<>>>>),
     ScopeData("ext1", "external", <<NoNet, NoIP, <<>>, <<>>>>)}

\* A stored record as MarshalJSON writes it for a scope without pools of its own.
StoredRecord(id, nm, ty, subnet, gw) ==
    [id |-> id, name |-> nm, type |-> ty, subnet |-> subnet, gateway |-> gw, dns |-> <<>>,
     trust |-> "published", internal |-> FALSE,
     pools |-> <<RangeOf(subnet)>>]

\* Stored values the context cannot load: bytes that are no scope, an external
\* scope whose port group the configuration does not have, and a bridge scope
\* whose subnet lies in the builtin bridge scope's.
DamagedRecords ==
    [junk |-> [garbage |-> TRUE],
     ext2 |-> StoredRecord("c1", "ext2", "external", [ip |-> 24, hb |-> 2], 25),
     net2 |-> StoredRecord("c2", "net2", "bridge", [ip |-> 36, hb |-> 2], 37)]

\* The store comes to hold the value v under the key k, not through the context.
StoreHolds(k, v) ==
    /\ k \notin DOMAIN kv /\ Cardinality(DOMAIN kv) < MaxStored
    /\ kv' = MapPut(kv, k, v)
    /\ last' = Result("Store", k, "", {})
    /\ UNCHANGED <<config, scopes, pool, link, containers, aliases, conEndpoints, handles>>
    /\ UNCHANGED lockVars

NextRecover ==
    \/ \E sd \in RecoverScopeInputs :
          /\ sd.name \notin DOMAIN scopes /\ Cardinality(DOMAIN kv \cup {sd.name}) <= MaxStored
          /\ NewScope(sd, NewUID(scopes), FALSE)
    \/ \E n \in {"net1", "ext1"} : DeleteScope(n, "")
    \/ \E k \in DOMAIN DamagedRecords : StoreHolds(k, DamagedRecords[k])
    \/ \E ord \in Orders(DOMAIN kv), listErr \in BOOLEAN : Restart(<<"a1", "b1">>, ord, listErr)

SpecRecover == InitScopes /\ [][NextRecover]_vars

\* --- scopes, staging, binding and unbinding together

\* net1: a bridge scope on 40..47 with a DNS server (42) inside its subnet, so
\* its gateway is 41 and the first address it hands out is 43.
MainScopeInputs == {ScopeData("net1", "bridge", <<[ip |-> 40, hb |-> 3], NoIP, <<42, 60>>, <<>>>>)}

Options(sn, a) == [scope |-> sn, ip |-> a, aliases |-> <<>>, ports |-> <<>>]

\* What each handle is staged with: c1 takes addresses as they come, c2 asks
\* for the static address 43 on net1.
MainOptions(cid) ==
    IF cid = "c1"
    THEN {Options("ext", NoIP), Options("net1", NoIP)}
    ELSE {Options(DefaultBridgeName, NoIP), Options("net1", 43)}

\* The addresses a guest reports: the gateway of net1 and a free address of it.
MainAssigned == {41, 44}

Init == InitWith({"c1", "c2"}, {[c \in {"c1", "c2"} |-> IF c = "c1" THEN "A" ELSE "B"]}, <<"a1", "b1">>)

\* The names DeleteScope is called with: the user scope's and the default scope's.
MainLookupNames == {"net1", "default"}

Next ==
    \/ \E sd \in MainScopeInputs : NewScope(sd, NewUID(scopes), FALSE)
    \/ \E n \in MainLookupNames : DeleteScope(n, "")
    \/ \E cid \in DOMAIN handles : \E o \in MainOptions(cid), ord \in Orders(DOMAIN handles[cid].networks) :
          AddContainer(cid, o, ord)
    \/ \E a \in MainAssigned : Assign("c1", "net1", a)
    \/ \E cid \in DOMAIN handles : \E ord, ord2 \in Orders(DOMAIN handles[cid].networks) :
          BindContainer(cid, ord, ord2)
    \/ \E cid \in DOMAIN handles : \E ord \in Orders(DOMAIN handles[cid].networks) : UnbindContainer(cid, ord)

Spec == Init /\ [][Next]_vars

\* --- binding and unbinding of containers with aliases and colliding names

\* c1 is named A; c2 is named B, or A as well, or as c1's short identifier.
AliasNames == {[c \in {"c1", "c2"} |-> IF c = "c1" THEN "A" ELSE n] : n \in {"B", "A", Truncate["c1"]}}

OptionsWith(sn, al) == [scope |-> sn, ip |-> NoIP, aliases |-> al, ports |-> <<>>]

\* What each handle is staged with: c1 joins the bridge network, plainly or
\* with the alias ":web" for itself; c2 joins it with the alias "A:app" for
\* the container named A, or joins the external network.
AliasOptions(cid) ==
    IF cid = "c1"
    THEN {OptionsWith(DefaultBridgeName, <<>>), OptionsWith(DefaultBridgeName, <<<<"", "web">>>>)}
    ELSE {OptionsWith(DefaultBridgeName, <<<<"A", "app">>>>), OptionsWith("ext", <<>>)}

InitAlias == InitWith({"c1", "c2"}, AliasNames, <<"a1", "b1">>)

NextAlias ==
    \/ \E cid \in DOMAIN handles : \E o \in AliasOptions(cid), ord \in Orders(DOMAIN handles[cid].networks) :
          AddContainer(cid, o, ord)
    \/ \E cid \in DOMAIN handles : \E ord, ord2 \in Orders(DOMAIN handles[cid].networks) :
          BindContainer(cid, ord, ord2)
    \/ \E cid \in DOMAIN handles : \E ord \in Orders(DOMAIN handles[cid].networks) : UnbindContainer(cid, ord)

SpecAlias == InitAlias /\ [][NextAlias]_vars

\* --- staging and binding: the handles of bound containers are staged on too

\* What each handle is staged with: the bridge network for c1, the external
\* network for c2.
BoundOptions(cid) == {Options(IF cid = "c1" THEN DefaultBridgeName ELSE "ext", NoIP)}

NextBound ==
    \/ \E cid \in DOMAIN handles : \E o \in BoundOptions(cid), ord \in Orders(DOMAIN handles[cid].networks) :
          AddContainer(cid, o, ord)
    \/ \E cid \in DOMAIN handles : \E sn \in {DefaultBridgeName, "ext"} :
          /\ Len(handles[cid].devs) < MaxDevs
          /\ RemoveContainer(cid, sn)
    \/ \E cid \in DOMAIN handles : \E ord, ord2 \in Orders(DOMAIN handles[cid].networks) :
          BindContainer(cid, ord, ord2)
    \/ \E cid \in DOMAIN handles : \E ord \in Orders(DOMAIN handles[cid].networks) : UnbindContainer(cid, ord)

\* c1 is named A and c2 as c1's short identifier.
InitBound == InitWith({"c1", "c2"}, {n \in AliasNames : n["c2"] = Truncate["c1"]}, <<"a1", "b1">>)

SpecBound == InitBound /\ [][NextBound]_vars

\* --- calls from two goroutines, each with the handle of its own container

\* The container whose handle goroutine g passes.
HandleOf == [g \in Goroutines |-> IF g = "g1" THEN "c1" ELSE "c2"]

\* The public methods that take the lock.
LockOps ==
    {"NewScope", "DeleteScope", "Scopes", "AddContainer", "RemoveContainer", "BindContainer",
     "UnbindContainer", "Container", "ContainersByAlias", "ContainerByAddr"}

\* What the calls are made with: the scope net1, the address of the first
\* container bound to the bridge scope, the name of c1.
LockScope == ScopeData("net1", "bridge", <<NoNet, NoIP, <<>>, <<>>>>)

LockAddr == 34

LockAlias == lookupName(DefaultBridgeName, "A")

\* The methods each goroutine calls: g1 all of them, g2 those that create and
\* delete the scope and stage, bind and unbind its container.
OpsOf(g) ==
    IF g = "g1" THEN LockOps
    ELSE {"NewScope", "DeleteScope", "AddContainer", "BindContainer", "UnbindContainer"}

\* A method that reads the context and returns ret.
Reads(op, arg, ret) ==
    /\ last' = Result(op, arg, "", ret)
    /\ UNCHANGED ctxVars /\ UNCHANGED handles

\* Container.ContainerByAddr over the scopes: the containers with addr there.
ContainerByAddr(sc, addr) ==
    UNION {{c \in DOMAIN sc[n].endpoints : sc[n].endpoints[c].ip = addr} : n \in DOMAIN sc}

\* Goroutine g enters the method op: c.Lock() is its first statement.
Begin(g, op) ==
    /\ calls[g] = Idle
    /\ op \in {"AddContainer", "RemoveContainer"} => Len(handles[HandleOf[g]].devs) < MaxDevs
    /\ calls' = [calls EXCEPT ![g] = [pc |-> "lock", op |-> op]]
    /\ UNCHANGED <<ctxVars, handles, last, mutex>>

\* c.Lock() returns in goroutine g.
Acquire(g) ==
    /\ calls[g].pc = "lock"
    /\ Lock(mutex, g).ok
    /\ mutex' = Lock(mutex, g).mutex
    /\ calls' = [calls EXCEPT ![g].pc = "held"]
    /\ UNCHANGED <<ctxVars, handles, last>>

\* What the method op does between c.Lock() and its return, for goroutine g.
Held(g, op) ==
    \/ op = "NewScope" /\ NewScopeCreated(LockScope, newScope(scopes, pool, link, NewUID(scopes), LockScope), FALSE)
    \/ op = "DeleteScope" /\ DeleteScopeResolved(LockScope.name, "", resolveScope(scopes, LockScope.name))
    \/ op = "Scopes" /\ Reads(op, LockScope.name, {x.name : x \in findScopes(scopes, LockScope.name).found})
    \/ /\ op = "AddContainer"
       /\ \E ord \in Orders(DOMAIN handles[HandleOf[g]].networks) :
              AddContainerResolved(HandleOf[g], Options(DefaultBridgeName, NoIP), ord,
                                   resolveScope(scopes, DefaultBridgeName))
    \/ /\ op = "RemoveContainer"
       /\ RemoveContainerResolved(HandleOf[g], DefaultBridgeName, resolveScope(scopes, DefaultBridgeName))
    \/ /\ op = "BindContainer"
       /\ \E ord, ord2 \in Orders(DOMAIN handles[HandleOf[g]].networks) :
              BindContainerFound(HandleOf[g], ord, ord2, container(containers, HandleOf[g]))
    \/ /\ op = "UnbindContainer"
       /\ \E ord \in Orders(DOMAIN handles[HandleOf[g]].networks) :
              UnbindContainerFound(HandleOf[g], ord, container(containers, HandleOf[g]))
    \/ op = "Container" /\ Reads(op, "A", IF "A" \in DOMAIN containers THEN {containers["A"]} ELSE {})
    \/ op = "ContainersByAlias" /\ Reads(op, LockAlias, Range(ContainersByAlias(aliases, LockAlias)))
    \/ op = "ContainerByAddr" /\ Reads(op, "34", ContainerByAddr(scopes, LockAddr))

\* The method runs in goroutine g, up to its return statement.
Run(g) ==
    /\ calls[g].pc = "held"
    /\ Held(g, calls[g].op)
    /\ calls' = [calls EXCEPT ![g].pc = "return"]
    /\ UNCHANGED mutex

\* The method returns in goroutine g: the deferred c.Unlock() runs.
Release(g) ==
    /\ calls[g].pc = "return"
    /\ mutex' = Unlock(mutex)
    /\ calls' = [calls EXCEPT ![g] = Idle]
    /\ UNCHANGED <<ctxVars, handles, last>>

NextLock ==
    \/ \E g \in Goroutines : \E op \in OpsOf(g) : Begin(g, op)
    \/ \E g \in Goroutines : Acquire(g)
    \/ \E g \in Goroutines : Run(g)
    \/ \E g \in Goroutines : Release(g)

SpecLock == Init /\ [][NextLock]_vars

\* --- staging alone: AddContainer and RemoveContainer on one handle

\* The user scopes: the external scope ext1, with either trust level, and the
\* bridge scope net1.
StageScopeInputs ==
    {ScopeData("ext1", "external", <<NoNet, NoIP, <<>>, <<>>>>),
     [ScopeData("ext1", "external", <<NoNet, NoIP, <<>>, <<>>>>) EXCEPT !.trust = "closed"],
     ScopeData("net1", "bridge", <<NoNet, NoIP, <<>>, <<>>>>)}

\* The scopes a handle is staged on, and one that does not exist.
StageScopes == {DefaultBridgeName, "ext", "ext1", "net1", "zz"}

\* The ports requested: none, a port to open, a port mapping.
StagePorts == {<<>>, <<"80">>, <<"8080:80">>}

StageOptions == {[scope |-> sn, ip |-> NoIP, aliases |-> <<>>, ports |-> ps] : sn \in StageScopes, ps \in StagePorts}

InitStage == InitWith({"c1"}, {[c \in {"c1"} |-> "A"]}, <<"a1", "b1">>)

NextStage ==
    \/ \E sd \in StageScopeInputs : NewScope(sd, NewUID(scopes), FALSE)
    \/ \E n \in {"ext1", "net1"} : DeleteScope(n, "")
    \/ \E cid \in DOMAIN handles : \E o \in StageOptions, ord \in Orders(DOMAIN handles[cid].networks) :
          /\ Len(handles[cid].devs) < MaxDevs
          /\ AddContainer(cid, o, ord)
    \/ \E cid \in DOMAIN handles : \E sn \in StageScopes :
          /\ Len(handles[cid].devs) < MaxDevs
          /\ RemoveContainer(cid, sn)

SpecStage == InitStage /\ [][NextStage]_vars

\* --- staging on the bridge scopes, over handles old and new

\* The caller takes a new handle for the container: it carries the declared
\* endpoints of the old one and no device change yet.
HandleRenewed(cid) ==
    /\ handles[cid].devs # <<>>
    /\ handles' = [handles EXCEPT ![cid].devs = <<>>]
    /\ last' = Staged("Handle", cid, "", "")
    /\ UNCHANGED ctxVars /\ UNCHANGED lockVars

\* What the handle is staged on and removed from.
NICScopes == {DefaultBridgeName, "ext", "ext1", "net1"}

NextNIC ==
    \/ \E sd \in StageScopeInputs : NewScope(sd, NewUID(scopes), FALSE)
    \/ \E cid \in DOMAIN handles : \E sn \in NICScopes, ord \in Orders(DOMAIN handles[cid].networks) :
          /\ Len(handles[cid].devs) < MaxDevs
          /\ AddContainer(cid, Options(sn, NoIP), ord)
    \/ \E cid \in DOMAIN handles : \E sn \in NICScopes :
          /\ Len(handles[cid].devs) < MaxDevs
          /\ RemoveContainer(cid, sn)
    \/ \E cid \in DOMAIN handles : HandleRenewed(cid)

SpecNIC == InitStage /\ [][NextNIC]_vars

\* --- staging with ports: scopes are created and one handle is staged on them

NextPorts ==
    \/ \E sd \in StageScopeInputs : NewScope(sd, NewUID(scopes), FALSE)
    \/ \E cid \in DOMAIN handles : \E o \in StageOptions, ord \in Orders(DOMAIN handles[cid].networks) :
          AddContainer(cid, o, ord)

SpecPorts == InitStage /\ [][NextPorts]_vars

\* --- binding a handle on internal and other scopes

\* The user scopes: an external scope ext1 on 20..23 and a bridge scope net1,
\* each internal or not.
ElectScopeInputs ==
    {[ScopeData("ext1", "external", <<[ip |-> 20, hb |-> 2], 21, <<>>, <<>>>>) EXCEPT !.internal = b] : b \in BOOLEAN}
    \cup {[ScopeData("net1", "bridge", <<NoNet, NoIP, <<>>, <<>>>>) EXCEPT !.internal = b] : b \in BOOLEAN}

\* What the handle is staged with: any of the scopes, no address asked for.
ElectOptions == {Options(sn, NoIP) : sn \in {DefaultBridgeName, "ext", "ext1", "net1"}}

InitElect == InitWith({"c1"}, {[c \in {"c1"} |-> "A"]}, <<"a1", "b1">>)

NextElect ==
    \/ \E sd \in ElectScopeInputs : NewScope(sd, NewUID(scopes), FALSE)
    \/ \E cid \in DOMAIN handles : \E o \in ElectOptions, ord \in Orders(DOMAIN handles[cid].networks) :
          AddContainer(cid, o, ord)
    \/ \E cid \in DOMAIN handles : \E ord, ord2 \in Orders(DOMAIN handles[cid].networks) :
          BindContainer(cid, ord, ord2)
    \/ \E cid \in DOMAIN handles : \E ord \in Orders(DOMAIN handles[cid].networks) : UnbindContainer(cid, ord)

SpecElect == InitElect /\ [][NextElect]_vars

\* ------------------------------------------------------------------ claims

\* C1: in every state reached by NewContext, NewScope and DeleteScope calls, no
\* two scopes of Context.scopes that have a specified subnet share an address,
\* whatever the prefix lengths and the types of the two scopes.
C1_NoSubnetOverlap ==
    \A n, m \in DOMAIN scopes :
        (n # m /\ ~IsUnspecifiedSubnet(scopes[n].subnet) /\ ~IsUnspecifiedSubnet(scopes[m].subnet))
            => ~RangesOverlap(RangeOf(scopes[n].subnet), RangeOf(scopes[m].subnet))

\* C4: when the store's Put fails during NewScope, the call leaves the scope
\* absent from Context.scopes, the children of the default bridge pool as they
\* were before the call (the carved subnet is free again) and the addresses of
\* the bridge link as they were (the gateway is removed).
C4_PutFailureRollsBack ==
    [][(last'.op = "NewScope" /\ last'.err = "kv put failed")
          => (last'.arg \notin DOMAIN scopes' /\ pool' = pool /\ link' = link)]_vars

\* C5: a NewScope that fails before the persistence step leaves Context.scopes,
\* the sub-ranges reserved in the default bridge pool, the store and the
\* addresses of the bridge link exactly as they were before the call.
C5_EarlyFailureChangesNothing ==
    [][(last'.op = "NewScope" /\ last'.err \notin {"", "kv put failed"})
          => (scopes' = scopes /\ pool' = pool /\ kv' = kv /\ link' = link)]_vars

\* C5 happens: a NewScope has failed on its gateway, after its subnet was reserved.
C5_Witness ==
    /\ last.op = "NewScope" /\ last.err = "gateway not routable"
    /\ last.arg \notin DOMAIN scopes

\* C3: when Scope.AddContainer fails for one endpoint of a BindContainer call,
\* the call returns with no endpoint on any scope that was not there before
\* it, the other containers' endpoints untouched, no address reserved that
\* was not reserved before it, and the container in neither index.
C3_FailedBindRollsBack ==
    [][(last'.op = "BindContainer" /\ last'.err \in {"pool exhausted", "address not available"}) =>
          LET cid == last'.arg IN
          /\ DOMAIN scopes' = DOMAIN scopes
          /\ \A n \in DOMAIN scopes :
                /\ DOMAIN scopes'[n].endpoints \subseteq DOMAIN scopes[n].endpoints
                /\ \A o \in (DOMAIN scopes[n].endpoints) \ {cid} :
                      o \in DOMAIN scopes'[n].endpoints /\ scopes'[n].endpoints[o] = scopes[n].endpoints[o]
                /\ \A i \in 1..Len(scopes[n].spaces) : scopes'[n].spaces[i].used \subseteq scopes[n].spaces[i].used
          /\ \A k \in DOMAIN containers' : containers'[k] # cid
          /\ \A k \in DOMAIN aliases' : \A i \in 1..Len(aliases'[k]) : aliases'[k][i] # cid]_vars

\* C3 happens: a bind of a handle with two endpoints has failed on an address
\* after its other endpoint was given one (the handle still shows it).
C3_Witness ==
    /\ last.op = "BindContainer" /\ last.err = "address not available"
    /\ Cardinality(DOMAIN handles[last.arg].networks) = 2
    /\ \E n \in DOMAIN handles[last.arg].networks :
          ~handles[last.arg].networks[n].static /\ handles[last.arg].networks[n].ip # NoIP

\* C6: BindContainer for a container that is already bound succeeds, returns
\* the endpoints the container has (the same set as the bind right before it
\* returned) and changes neither the context nor the handle.
C6_BindIdempotent ==
    [][(last'.op = "BindContainer" /\ LongID[last'.arg] \in DOMAIN containers) =>
          /\ last'.err = ""
          /\ last'.ret = Endpoints(scopes, conEndpoints[last'.arg], last'.arg)
          /\ (last.op = "BindContainer" /\ last.arg = last'.arg /\ last.err = "") => last'.ret = last.ret
          /\ UNCHANGED <<config, scopes, pool, kv, link, containers, aliases, conEndpoints, handles>>]_vars

\* C6 happens: a bind has found its container bound, with two endpoints.
C6_Witness ==
    /\ last.op = "BindContainer" /\ last.path = "already bound"
    /\ Cardinality(last.ret) = 2

\* C7: UnbindContainer for a handle whose container is not bound returns no
\* endpoints and no error, and changes neither the context nor the handle.
C7_UnbindUnboundIsNoop ==
    [][(last'.op = "UnbindContainer" /\ LongID[last'.arg] \notin DOMAIN containers) =>
          /\ last'.err = "" /\ last'.ret = {}
          /\ UNCHANGED <<config, scopes, pool, kv, link, containers, aliases, conEndpoints, handles>>]_vars

\* C7 happens: an unbind has found its container not bound, while its handle
\* declares endpoints and another container is bound.
C7_Witness ==
    /\ last.op = "UnbindContainer" /\ last.path = "not bound"
    /\ DOMAIN handles[last.arg].networks # {}
    /\ DOMAIN containers # {}

\* C9: on every scope that is not dynamic, no two endpoints hold the same
\* address and no endpoint holds the gateway, a DNS address that lies in one
\* of the scope's pools, or the subnet's all-zeros or all-ones address.
C9_SingleOwner ==
    \A n \in DOMAIN scopes :
        ~isDynamic(scopes[n]) =>
            LET s == scopes[n]
                inPool(a) == \E k \in 1..Len(s.spaces) : a \in SpaceAddrs(s.spaces[k])
                fixed == {s.gateway, AllZerosAddr(s.subnet), AllOnesAddr(s.subnet)}
                             \cup {s.dns[i] : i \in {j \in 1..Len(s.dns) : inPool(s.dns[j])}}
            IN \A c \in DOMAIN s.endpoints :
                  /\ s.endpoints[c].ip \notin fixed
                  /\ \A d \in (DOMAIN s.endpoints) \ {c} : s.endpoints[d].ip # s.endpoints[c].ip

\* C9 happens: a scope with a DNS server in its pool holds an endpoint with a
\* static address and one with the address its guest reported.
C9_Witness ==
    /\ "net1" \in DOMAIN scopes
    /\ DOMAIN scopes["net1"].endpoints = {"c1", "c2"}
    /\ scopes["net1"].endpoints["c2"].static
    /\ scopes["net1"].endpoints["c1"].ip = handles["c1"].networks["net1"].assigned

\* C10: the scope of every endpoint of every bound container is in
\* Context.scopes under its name, and holds that endpoint.
C10_EndpointScopesExist ==
    \A cid \in DOMAIN handles :
        LongID[cid] \in DOMAIN containers =>
            \A n \in conEndpoints[containers[LongID[cid]]] :
                n \in DOMAIN scopes /\ containers[LongID[cid]] \in DOMAIN scopes[n].endpoints

\* C10 happens: DeleteScope was refused for a scope a bound container is on.
C10_Witness ==
    /\ last.op = "DeleteScope" /\ last.err = "active endpoints"
    /\ \E cid \in DOMAIN handles : LongID[cid] \in DOMAIN containers /\ last.arg \in conEndpoints[cid]

\* C2: every bound container is in Context.containers under its long
\* identifier, its short identifier and its name, all three leading to it, and
\* no key of a container that is not bound leads to it.
C2_ContainerKeysAgree ==
    \A cid \in DOMAIN handles :
        LET keys == {LongID[cid], Truncate[cid], handles[cid].name} IN
        IF LongID[cid] \in DOMAIN containers
        THEN \A k \in keys : k \in DOMAIN containers /\ containers[k] = cid
        ELSE \A k \in keys : ~(k \in DOMAIN containers /\ containers[k] = cid)

\* C8: once every container is unbound again, Context.containers and
\* Context.aliases are as before the first bind: empty.
C8_UnbindRestores ==
    (\A cid \in DOMAIN handles : LongID[cid] \notin DOMAIN containers)
        => (containers = EmptyMap /\ aliases = EmptyMap)

\* The scopes NewContext creates from the configuration.
BuiltinNames == {DefaultBridgeName, ConfigExternal.name}

\* DeleteScope must refuse the scope that resolveScope returned as r.
mustRefuse(r) == r.ok /\ (r.scope.builtin \/ DOMAIN r.scope.endpoints # {})

\* C11: a DeleteScope whose resolved scope is builtin or has an endpoint fails
\* and leaves Context.scopes, the store and the bridge link as they were; and
\* the builtin scopes of construction are in Context.scopes in every state.
C11_BuiltinScopesStay ==
    /\ [](\A n \in BuiltinNames : n \in DOMAIN scopes)
    /\ [][(last'.op = "DeleteScope" /\ mustRefuse(resolveScope(scopes, last'.arg)))
             => (last'.err # "" /\ scopes' = scopes /\ kv' = kv /\ link' = link)]_vars

\* C11 happens: DeleteScope was refused for the default scope while it had no
\* endpoint, and the store held the record of a user scope.
C11_Witness ==
    /\ last.op = "DeleteScope" /\ last.arg = "default" /\ last.err = "cannot remove builtin scope"
    /\ DOMAIN scopes[DefaultBridgeName].endpoints = {}
    /\ DOMAIN kv # {}

\* The scopes of type external that handle h declares an endpoint on.
externalScopesOf(sc, h) == {n \in DOMAIN h.networks : n \in DOMAIN sc /\ sc[n].type = "external"}

\* AddContainer resolved the external scope r.scope for a handle that declares
\* an endpoint on another external scope.
secondExternal(sc, h, r) ==
    r.ok /\ r.scope.type = "external" /\ externalScopesOf(sc, h) \ {r.scope.name} # {}

Holds(q, x) == \E i \in 1..Len(q) : q[i] = x

\* The aliases "who:what" that the handle of container b declares on scope n
\* for another container: who is the name of a container bound with an
\* endpoint on n. Each is [name, target]: the scoped name and that container.
aliasesFor(sc, ctrs, hs, b, n) ==
    {[name |-> scopedName(n, a[1], a[2]), target |-> ctrs[a[1]]] :
        a \in {hs[b].networks[n].aliases[i] :
                  i \in {j \in 1..Len(hs[b].networks[n].aliases) :
                            /\ Len(hs[b].networks[n].aliases[j]) = 2
                            /\ hs[b].networks[n].aliases[j][1] \notin {"", hs[b].name}
                            /\ hs[b].networks[n].aliases[j][1] \in DOMAIN ctrs
                            /\ hs[ctrs[hs[b].networks[n].aliases[j][1]]].name = hs[b].networks[n].aliases[j][1]
                            /\ n \in DOMAIN sc
                            /\ ctrs[hs[b].networks[n].aliases[j][1]] \in DOMAIN sc[n].endpoints}}}

aliasesOfBind(sc, ctrs, hs, b) == UNION {aliasesFor(sc, ctrs, hs, b, n) : n \in DOMAIN hs[b].networks}

\* The keys container c is indexed under in c.containers.
containerKeys(hs, c) == {LongID[c], Truncate[c], hs[c].name}

\* No two containers share a key.
distinctKeys(hs) == \A c, d \in DOMAIN hs : c # d => containerKeys(hs, c) \cap containerKeys(hs, d) = {}

aliasSets(als) == [k \in DOMAIN als |-> {als[k][i] : i \in 1..Len(als[k])}]

\* Container b declares, on a scope that container a is staged on as well, an
\* alias for a by a's name.
aliasedBy(hs, a, b) ==
    /\ hs[a].name # hs[b].name
    /\ \E n \in (DOMAIN hs[a].networks) \cap (DOMAIN hs[b].networks) :
          \E i \in 1..Len(hs[b].networks[n].aliases) :
              Len(hs[b].networks[n].aliases[i]) = 2 /\ hs[b].networks[n].aliases[i][1] = hs[a].name

\* Two contexts with the same containers and, as sets, the same aliases,
\* both reached without an error.
sameIndexes(x, y) ==
    /\ x.err = "" /\ y.err = ""
    /\ x.containers = y.containers
    /\ aliasSets(x.aliases) = aliasSets(y.aliases)

\* C14: for containers A and B staged on the same scope, B with an alias for
\* A by name, and neither bound: binding A then B and binding B then A leave
\* the same Context.aliases (same names, same sets of containers) and the
\* same Context.containers.
C14_BindOrderIrrelevant ==
    \A a, b \in DOMAIN handles :
        (a # b /\ aliasedBy(handles, a, b) /\ DOMAIN containers = {}) =>
            \A oa \in Orders(DOMAIN handles[a].networks), ob \in Orders(DOMAIN handles[b].networks) :
                sameIndexes(
                    bindInto(bindInto([scopes |-> scopes, containers |-> containers, aliases |-> aliases, err |-> ""],
                                      handles, a, oa), handles, b, ob),
                    bindInto(bindInto([scopes |-> scopes, containers |-> containers, aliases |-> aliases, err |-> ""],
                                      handles, b, ob), handles, a, oa))

\* C15: with A and B bound on the same scope, B having declared the alias
\* "A:app", a successful UnbindContainer(B) removes the alias: ContainersByAlias
\* of its scoped name then returns nothing (here for containers that share no key).
C15_UnbindRemovesAlias ==
    [][(last'.op = "UnbindContainer" /\ last'.err = "" /\ last'.path = "" /\ distinctKeys(handles))
          => \A t \in aliasesOfBind(scopes, containers, handles, last'.arg) :
                ContainersByAlias(aliases', t.name) = <<>>]_vars

\* What a restart must keep of the scopes: their names, types, subnets and gateways.
scopeSummary(sc) == [n \in DOMAIN sc |-> [type |-> sc[n].type, subnet |-> sc[n].subnet, gateway |-> sc[n].gateway]]

\* C16: a context constructed anew from the same configuration and the same
\* store holds exactly the scopes the old context held, with the same names,
\* types, subnets and gateways.
C16_ScopesSurviveRestart ==
    [][last'.op = "NewContext" => scopeSummary(scopes') = scopeSummary(scopes)]_vars

\* Whether the loader admits the stored value v into the context ctx.
acceptable(ctx, v) ==
    /\ UnmarshalJSONOK(v)
    /\ loadedPortGroup(UnmarshalJSON(v)) \in PortGroups
    /\ addScope(ctx.scopes, ctx.pool, UnmarshalJSON(v)).err = ""

\* The keys of the listed values that the loader admits, each in the context
\* as it is when the value's turn comes.
RECURSIVE admittedKeys(_, _, _, _)
admittedKeys(ctx, values, ord, i) ==
    IF i > Len(ord) THEN {}
    ELSE (IF acceptable(ctx, values[ord[i]]) THEN {ord[i]} ELSE {})
         \cup admittedKeys(loadOne(ctx, values[ord[i]]), values, ord, i + 1)

\* The scopes sc hold the scope of the stored value v as it was stored.
keptAs(sc, v) ==
    /\ v.name \in DOMAIN sc
    /\ sc[v.name].id = v.id /\ sc[v.name].type = v.type
    /\ sc[v.name].subnet = v.subnet /\ sc[v.name].gateway = v.gateway

holdsBuiltins(ctx) ==
    ctx.err = "" /\ \A n \in BuiltinNames : n \in DOMAIN ctx.scopes /\ ctx.scopes[n].builtin

holdsValid(ctx, values, ord) ==
    \A k \in admittedKeys(loading(NewContext("a1", "b1")), values, ord, 1) : keptAs(ctx.scopes, values[k])

\* What C17 states of the context ctx that NewContext returned.
validLoaded(ctx, values, ord) == holdsBuiltins(ctx) /\ holdsValid(ctx, values, ord)

\* C17 as stated: whether the listing fails or not and whatever records the
\* store holds, NewContext returns no error and a context with every builtin
\* scope and every stored scope whose record is valid.
C17_ValidScopesLoaded ==
    \A ord \in Orders(DOMAIN kv), listErr \in BOOLEAN :
        validLoaded(NewContextKV("a1", "b1", kv, ord, listErr), kv, ord)

\* The context ctx that NewContext returned when the listing failed holds the
\* builtin scopes only.
builtinsOnly(ctx) == holdsBuiltins(ctx) /\ DOMAIN ctx.scopes = BuiltinNames

\* C17 amended: NewContext returns no error and a context with every builtin
\* scope; when the listing succeeds the context also holds every stored scope
\* whose record deserializes, has its port group and is admitted by addScope,
\* and when the listing fails it holds the builtin scopes only.
C17_BadRecordsSkipped ==
    \A ord \in Orders(DOMAIN kv) :
        /\ validLoaded(NewContextKV("a1", "b1", kv, ord, FALSE), kv, ord)
        /\ builtinsOnly(NewContextKV("a1", "b1", kv, ord, TRUE))

\* A context constructed over a store with a value that is no scope, a record
\* addScope rejected and a record it admitted.
C17_Witness ==
    /\ last.op = "NewContext" /\ last.err = ""
    /\ \E k \in DOMAIN kv : ~UnmarshalJSONOK(kv[k])
    /\ \E k \in DOMAIN kv : UnmarshalJSONOK(kv[k]) /\ kv[k].name \notin DOMAIN scopes
                             /\ loadedPortGroup(UnmarshalJSON(kv[k])) \in PortGroups
    /\ \E k \in DOMAIN kv : UnmarshalJSONOK(kv[k]) /\ keptAs(scopes, kv[k])

\* The external scopes among sc that have a subnet sharing an address with the
\* network poolNet.
externalInPool(sc, poolNet) ==
    {n \in DOMAIN sc : /\ sc[n].type = "external" /\ ~sc[n].builtin
                       /\ ~IsUnspecifiedSubnet(sc[n].subnet)
                       /\ RangesOverlap(RangeOf(sc[n].subnet), RangeOf(poolNet))}

\* C18: NewScope succeeds for an external scope with a specified subnet only
\* if the subnet shares no address with the default bridge pool's network: no
\* scope NewScope created is external with a subnet inside, partially over or
\* containing the pool.
C18_ExternalOutsidePool == externalInPool(scopes, BridgeIPRange) = {}

\* The declared networks of nets that are marked default.
defaultsOf(nets) == {n \in DOMAIN nets : nets[n].default}

\* The declared networks of nets whose scope is not internal, and those among
\* them whose scope is external.
nonInternal(sc, nets) == {n \in DOMAIN nets : n \in DOMAIN sc /\ ~sc[n].internal}

externalNonInternal(sc, nets) == {n \in nonInternal(sc, nets) : sc[n].type = "external"}

\* The election the spec describes, of the marked networks marked.
elected(sc, nets, marked) ==
    /\ marked \subseteq nonInternal(sc, nets)
    /\ nonInternal(sc, nets) # {} => Cardinality(marked) = 1
    /\ externalNonInternal(sc, nets) # {} => marked \subseteq externalNonInternal(sc, nets)

\* C19: after a successful BindContainer the handle's endpoint marked default
\* is an external, non-internal one if the handle has one, else a non-internal
\* one: exactly one endpoint is marked when the handle has an endpoint on a
\* non-internal scope, and no endpoint on an internal scope is marked.
C19_DefaultElected ==
    [][\A cid \in DOMAIN handles :
          (last'.op = "BindContainer" /\ last'.arg = cid /\ last'.err = "" /\ ~IsBound(containers, cid))
              => elected(scopes', handles'[cid].networks, defaultsOf(handles'[cid].networks))]_vars

\* The requests C20 is about: a port with ':' or, behind the closed firewall,
\* any port.
portsAsked(s, ports) ==
    (\E i \in 1..Len(ports) : ContainsColon(ports[i])) \/ (Len(ports) > 0 /\ s.trust = "closed")

PortErrors == {"external scope includes a port mapping", "ports cannot be published via closed firewall"}

\* What C20 says of an AddContainer step on the resolved scope s with the ports
\* asked for: refused without a change on an external scope, not refused for
\* its ports on a bridge scope.
portsRefused(s, ports) ==
    /\ (s.type = "external" /\ portsAsked(s, ports)) => (last'.err # "" /\ handles' = handles)
    /\ s.type = "bridge" => last'.err \notin PortErrors

\* C20 as stated: every AddContainer on an external scope with a port that
\* contains ':', or with any port when the scope's trust level is closed,
\* returns an error and leaves the handle unchanged; on a bridge scope
\* neither check refuses the call.
C20_ExternalPortsRefused ==
    [][\A cid \in DOMAIN handles, o \in StageOptions :
          (last'.op = "AddContainer" /\ last'.arg = cid /\ last'.req = o.scope /\ resolveScope(scopes, o.scope).ok)
              => \A ord \in Orders(DOMAIN handles[cid].networks) :
                    AddContainer(cid, o, ord) => portsRefused(resolveScope(scopes, o.scope).scope, o.ports)]_vars

\* C20 amended: the same, for a handle that does not yet declare the scope; on
\* a handle that declares it the call returns no error and changes nothing.
C20_NewEndpointPortsRefused ==
    [][\A cid \in DOMAIN handles, o \in StageOptions :
          (last'.op = "AddContainer" /\ last'.arg = cid /\ last'.req = o.scope /\ resolveScope(scopes, o.scope).ok)
              => \A ord \in Orders(DOMAIN handles[cid].networks) :
                    AddContainer(cid, o, ord)
                        => IF resolveScope(scopes, o.scope).scope.name \in DOMAIN handles[cid].networks
                           THEN last'.err = "" /\ handles' = handles
                           ELSE portsRefused(resolveScope(scopes, o.scope).scope, o.ports)]_vars

\* A handle staged on a bridge scope with a port mapping, then refused on the
\* external scope behind the closed firewall.
C20_Witness ==
    /\ last.op = "AddContainer" /\ last.err = "ports cannot be published via closed firewall"
    /\ \E n \in DOMAIN handles["c1"].networks :
          /\ n \in DOMAIN scopes /\ scopes[n].type = "bridge"
          /\ \E i \in 1..Len(handles["c1"].networks[n].ports) : ContainsColon(handles["c1"].networks[n].ports[i])

\* The declared networks of nets whose scope is a bridge scope.
bridgeEndpoints(sc, nets) == {n \in DOMAIN nets : n \in DOMAIN sc /\ sc[n].type = "bridge"}

\* The endpoint declared by this step shares the NIC of the bridge endpoints
\* the handle declared before, and no device change was appended for it.
sharesNIC(sc, h, h2) ==
    \A n \in bridgeEndpoints(sc, h2.networks) \ DOMAIN h.networks :
        bridgeEndpoints(sc, h.networks) # {}
            => /\ h2.devs = h.devs
               /\ \E m \in bridgeEndpoints(sc, h.networks) : h2.networks[n].id = h.networks[m].id
               /\ atoiOrZero(h2.networks[n].id) \in Slots

\* C21: an AddContainer that adds a bridge scope to a handle with an endpoint
\* on another bridge scope appends no device change and gives the new endpoint
\* the ID of the existing bridge endpoint, its PCI slot in decimal; and in every
\* state all bridge endpoints declared on a handle carry the same ID.
C21_BridgeNICShared ==
    /\ [](\A cid \in DOMAIN handles :
            \A n, m \in bridgeEndpoints(scopes, handles[cid].networks) :
                handles[cid].networks[n].id = handles[cid].networks[m].id)
    /\ [][\A cid \in DOMAIN handles :
            (last'.op = "AddContainer" /\ last'.arg = cid /\ last'.err = "")
                => sharesNIC(scopes, handles[cid], handles'[cid])]_vars

\* A handle, renewed since its first endpoint was staged, with endpoints on
\* two bridge scopes and no device change for the second.
C21_Witness ==
    /\ last.op = "AddContainer" /\ last.err = ""
    /\ Cardinality(bridgeEndpoints(scopes, handles["c1"].networks)) = 2
    /\ handles["c1"].devs = <<>>

\* The handle h2 is h without the endpoint on sn, every other endpoint as it
\* was, with one more device change, a removal, exactly when no endpoint left
\* has the ID of the deleted one.
endpointRemoved(h, h2, sn) ==
    /\ DOMAIN h2.networks = DOMAIN h.networks \ {sn}
    /\ \A n \in DOMAIN h2.networks : h2.networks[n] = h.networks[n]
    /\ IF \E n \in DOMAIN h2.networks : h2.networks[n].id = h.networks[sn].id
       THEN h2.devs = h.devs
       ELSE /\ Len(h2.devs) = Len(h.devs) + 1
            /\ SubSeq(h2.devs, 1, Len(h.devs)) = h.devs
            /\ h2.devs[Len(h2.devs)].op = "remove"

\* C22: a successful RemoveContainer(h, scope) deletes the endpoint of the
\* scope from the handle and appends a remove-device change iff no other
\* endpoint still declared on the handle has the same ID.
C22_RemoveDeletesEndpoint ==
    [][\A cid \in DOMAIN handles :
        (last'.op = "RemoveContainer" /\ last'.arg = cid /\ last'.err = "")
            => \E sn \in DOMAIN handles[cid].networks :
                   endpointRemoved(handles[cid], handles'[cid], sn)]_vars

\* An endpoint with a NIC of its own was removed with a device change, then a
\* bridge endpoint sharing its NIC with one that stays was removed with none.
C22_Witness ==
    /\ last.op = "RemoveContainer" /\ last.err = ""
    /\ last.req \in DOMAIN scopes /\ scopes[last.req].type = "bridge"
    /\ bridgeEndpoints(scopes, handles["c1"].networks) # {}
    /\ Len(handles["c1"].devs) = 1
    /\ handles["c1"].devs[1].op = "remove"
    /\ handles["c1"].devs[1].network # NetworkOf(scopes[last.req])

\* The container is bound: the context knows it by its identifier, or one of
\* the scopes holds an endpoint of it.
currentlyBound(ctrs, eps, cid) == LongID[cid] \in DOMAIN ctrs \/ eps[cid] # {}

\* C23: RemoveContainer for a handle whose container is bound returns an error
\* and leaves the handle's declared endpoints and device changes, and the
\* context, as they were.
C23_RemoveRefusedWhenBound ==
    [][\A cid \in DOMAIN handles :
        (last'.op = "RemoveContainer" /\ last'.arg = cid /\ currentlyBound(containers, conEndpoints, cid))
            => /\ last'.err # ""
               /\ handles' = handles
               /\ UNCHANGED ctxVars]_vars

\* RemoveContainer was refused for a bound container, on a scope its handle
\* declares and on which it has an endpoint.
C23_Witness ==
    /\ last.op = "RemoveContainer" /\ last.err = "container is bound"
    /\ last.req \in DOMAIN handles[last.arg].networks
    /\ last.req \in conEndpoints[last.arg]

\* C24: AddContainer and RemoveContainer, whether they succeed or fail, leave
\* the context as it was: scopes with their endpoints and reserved addresses,
\* the default bridge pool, the containers and the aliases. Only the handle
\* is written.
C24_StagingLeavesContext ==
    [][last'.op \in {"AddContainer", "RemoveContainer"} => UNCHANGED ctxVars]_vars

\* With one container bound and holding an address, the handle of the other
\* was staged on a scope, and an endpoint was removed from a handle.
C24_Witness ==
    /\ \E cid \in DOMAIN handles : conEndpoints[cid] # {}
    /\ \/ /\ last.op = "AddContainer" /\ last.err = ""
          /\ last.req \in DOMAIN handles[last.arg].networks
          /\ \E i \in 1..Len(handles[last.arg].devs) : handles[last.arg].devs[i].op = "remove"
       \/ /\ last.op = "RemoveContainer" /\ last.err = ""
          /\ handles[last.arg].networks # EmptyMap

\* The goroutines between the return of c.Lock() and the end of c.Unlock().
holders(cs) == {g \in Goroutines : cs[g].pc \in {"held", "return"}}

\* At most one goroutine is inside a method, the mutex holds that one, no
\* goroutine waits for the mutex it holds, and while a call is in progress
\* some goroutine is inside a method or can lock the mutex.
lockDiscipline(m, cs) ==
    /\ Cardinality(holders(cs)) <= 1
    /\ (m = Unlocked) <=> (holders(cs) = {})
    /\ \A g \in holders(cs) : m = g
    /\ \A g \in Goroutines : cs[g].pc = "lock" => m # g
    /\ (\E g \in Goroutines : cs[g] # Idle)
          => \E g \in Goroutines : \/ cs[g].pc = "lock" /\ Lock(m, g).ok
                                   \/ cs[g].pc \in {"held", "return"}

\* The addresses of the endpoints of each scope differ from one another.
distinctAddresses(sc) ==
    \A n \in DOMAIN sc : \A c, d \in DOMAIN sc[n].endpoints :
        c # d => sc[n].endpoints[c].ip # sc[n].endpoints[d].ip

\* C25: under every interleaving of the calls of two goroutines each method
\* reads and writes the context only while its goroutine holds the mutex,
\* releases it when it returns, with an error or without, and never waits
\* for the mutex while holding it; so the calls take effect one after another
\* (a NewScope finds the name another one took, two binds on a scope get
\* different addresses) and none deadlocks.
C25_CallsSerialized ==
    /\ [](lockDiscipline(mutex, calls) /\ distinctAddresses(scopes))
    /\ [][<<ctxVars, handles, last>>' # <<ctxVars, handles, last>>
            => \E g \in Goroutines :
                   /\ mutex = g /\ mutex' = g
                   /\ calls[g].pc = "held" /\ calls'[g].pc = "return"
                   /\ \A h \in Goroutines \ {g} : calls'[h] = calls[h]
                   /\ (last'.op = "NewScope" /\ last'.err = "") => LockScope.name \notin DOMAIN scopes]_vars
    /\ [][\A g \in Goroutines : (calls[g].pc = "return" /\ calls'[g] = Idle) => mutex' = Unlocked]_vars

\* With the containers of both goroutines bound to the bridge scope, the
\* NewScope of one goroutine has failed and is about to return, holding the
\* mutex that the NewScope of the other goroutine waits for.
C25_Witness ==
    /\ calls["g1"] = [pc |-> "return", op |-> "NewScope"]
    /\ calls["g2"] = [pc |-> "lock", op |-> "NewScope"]
    /\ mutex = "g1"
    /\ last.op = "NewScope" /\ last.err # ""
    /\ DOMAIN scopes[DefaultBridgeName].endpoints = {"c1", "c2"}

\* The number of addresses reserved in the first i address spaces of spaces.
RECURSIVE reservedCount(_, _)
reservedCount(spaces, i) ==
    IF i = 0 THEN 0 ELSE Cardinality(spaces[i].used) + reservedCount(spaces, i - 1)

\* The addresses reserved in, and those covered by, the address spaces of s.
reservedIn(s) == UNION {s.spaces[i].used : i \in 1..Len(s.spaces)}

poolAddrs(s) == UNION {SpaceAddrs(s.spaces[i]) : i \in 1..Len(s.spaces)}

\* The endpoints of s with a specified address.
addressed(s) == {c \in DOMAIN s.endpoints : ~IsUnspecifiedIP(s.endpoints[c].ip)}

\* The addresses of s that addScope sets aside: DNS servers, gateway,
\* all-zeros and all-ones.
fixedAddrs(s) ==
    {s.dns[i] : i \in 1..Len(s.dns)} \cup {s.gateway, AllZerosAddr(s.subnet), AllOnesAddr(s.subnet)}

\* The count as stated: every DNS address and both ends of the subnet count.
countAsStated(s) ==
    Cardinality(addressed(s)) + Len(s.dns) + (IF s.gateway \in reservedIn(s) THEN 1 ELSE 0) + 2

\* C26 as stated: for every non-dynamic scope the number of addresses reserved
\* in scope.spaces is the number of endpoints with a specified IP, plus the
\* number of DNS addresses, plus one for a reserved gateway, plus two.
C26_ReservedCount ==
    \A n \in DOMAIN scopes :
        ~isDynamic(scopes[n]) => reservedCount(scopes[n].spaces, Len(scopes[n].spaces)) = countAsStated(scopes[n])

\* C26, amended: for every non-dynamic scope the number of addresses reserved
\* in scope.spaces is the number of endpoints with a specified IP plus the
\* number of distinct addresses among the DNS addresses, the gateway,
\* all-zeros and all-ones that lie in one of the scope's pools; and the
\* reserved addresses are exactly those.
C26_ReservedAccounted ==
    \A n \in DOMAIN scopes :
        ~isDynamic(scopes[n]) =>
            /\ reservedCount(scopes[n].spaces, Len(scopes[n].spaces))
                  = Cardinality(addressed(scopes[n]))
                      + Cardinality(fixedAddrs(scopes[n]) \cap poolAddrs(scopes[n]))
            /\ reservedIn(scopes[n])
                  = {scopes[n].endpoints[c].ip : c \in addressed(scopes[n])}
                      \cup (fixedAddrs(scopes[n]) \cap poolAddrs(scopes[n]))

\* A scope with a DNS server in its subnet and one outside of it holds two
\* endpoints with addresses.
C26_Witness ==
    /\ "net1" \in DOMAIN scopes
    /\ Cardinality(addressed(scopes["net1"])) = 2
    /\ \E i, j \in 1..Len(scopes["net1"].dns) :
          /\ scopes["net1"].dns[i] \in poolAddrs(scopes["net1"])
          /\ scopes["net1"].dns[j] \notin poolAddrs(scopes["net1"])

\* The addresses a bind writes on the endpoints of handle h are zero again:
\* no address was reported and only a static endpoint keeps its address.
addressesZeroed(h) ==
    \A n \in DOMAIN h.networks :
        /\ IsUnspecifiedIP(h.networks[n].assigned)
        /\ ~h.networks[n].static => IsUnspecifiedIP(h.networks[n].ip)

\* C27: when UnbindContainer succeeds for a bound container, the addresses
\* BindContainer wrote on the handle's endpoints (endpoint IP and Assigned.IP)
\* are zero again and the device changes are those AddContainer and
\* RemoveContainer staged.
C27_UnbindRestoresHandle ==
    [][\A cid \in DOMAIN handles :
        (last'.op = "UnbindContainer" /\ last'.arg = cid /\ last'.err = ""
            /\ LongID[cid] \in DOMAIN containers)
            => /\ addressesZeroed(handles'[cid])
               /\ handles'[cid].devs = handles[cid].devs]_vars

\* A successful NewScope of net1 without subnet and gateway gives it subnet
\* and gateway gw, and the first container bound to net1 without an address
\* gets address first.
autoAllocated(sc, sc2, res, subnet, gw, first) ==
    /\ (res.op = "NewScope" /\ res.arg = "net1" /\ res.err = "")
          => (sc2["net1"].subnet = subnet /\ sc2["net1"].gateway = gw)
    /\ (res.op = "BindContainer" /\ res.err = "" /\ "net1" \in DOMAIN sc
            /\ DOMAIN sc["net1"].endpoints = {} /\ DOMAIN sc2["net1"].endpoints # {})
          => \A c \in DOMAIN sc2["net1"].endpoints : sc2["net1"].endpoints[c].ip = first

\* C28 as stated, with the default bridge pool 32..47 (172.16.0.0/12) and
\* blocks of 8 addresses (/16): net1 gets the lowest block of the pool, 32..39
\* (172.16.0.0/16), the gateway 33 and its first container 34.
C28_LowestBlock ==
    [][autoAllocated(scopes, scopes', last', [ip |-> 32, hb |-> 3], 33, 34)]_vars

\* C28, amended: the builtin bridge scope holds the lowest block of the pool
\* since NewContext, and net1 gets the next one, 40..47 (172.17.0.0/16), the
\* gateway 41 (172.17.0.1) and its first container 42 (172.17.0.2).
C28_NextBlock ==
    /\ [](scopes[DefaultBridgeName].subnet = [ip |-> 32, hb |-> 3] /\ scopes[DefaultBridgeName].gateway = 33)
    /\ [][autoAllocated(scopes, scopes', last', [ip |-> 40, hb |-> 3], 41, 42)]_vars

\* The first container of net1 was bound and holds its address.
C28_Witness ==
    /\ last.op = "BindContainer" /\ last.err = ""
    /\ "net1" \in DOMAIN scopes
    /\ DOMAIN scopes["net1"].endpoints = {"c1"}
    /\ scopes["net1"].subnet = [ip |-> 40, hb |-> 3]
    /\ ~IsUnspecifiedIP(scopes["net1"].endpoints["c1"].ip)

\* C29: for every string scope resolution yields one scope or an error, and
\* no AddContainer, RemoveContainer or DeleteScope goes on with neither.
C29_ResolvesOneOrError ==
    /\ \A idName \in LookupNames :
          resolveScope(scopes, idName).err # "" \/ resolveScope(scopes, idName).ok
    /\ last.err # "nil scope dereferenced"

\* The errors of BindContainer that do not come from Scope.AddContainer.
LateBindErrors == {"network not found", "invalid port", "parsing network alias failed"}

\* C30: when BindContainer returns an error raised at another step than
\* Scope.AddContainer (the scope of a later endpoint is not found, a port
\* does not parse, an alias is not who:what), no endpoint of the container
\* remains on a scope, every address reserved for it is released and the
\* container is in neither index: the context is as before the call.
C30_LateFailureRollsBack ==
    [][(last'.op = "BindContainer" /\ last'.err \in LateBindErrors)
          => /\ scopes' = scopes
             /\ containers' = containers /\ aliases' = aliases /\ conEndpoints' = conEndpoints]_vars

\* --- deleting scopes over a store that can lose records

\* The store comes to hold nothing under the key k, not through the context.
StoreLoses(k) ==
    /\ k \in DOMAIN kv
    /\ kv' = MapDel(kv, k)
    /\ last' = Result("Store", k, "", {})
    /\ UNCHANGED <<config, scopes, pool, link, containers, aliases, conEndpoints, handles>>
    /\ UNCHANGED lockVars

\* The key DeleteScope(name) hands to the store's Delete, when it gets there.
deletedKey(r, name) == IF r.ok THEN r.scope.name ELSE name

\* What the store's Delete can answer for the key k: a failure of its own;
\* nil when it holds k and key-not-found when it does not.
DeleteOutcomes(store, k) == {"io"} \cup (IF k \in DOMAIN store THEN {""} ELSE {ErrKeyNotFound})

NextDelete ==
    \/ \E sd \in ScopeInputs :
          /\ sd.name \in DOMAIN scopes => (IsUnspecifiedSubnet(sd.subnet) /\ IsUnspecifiedIP(sd.gateway))
          /\ NewScope(sd, NewUID(scopes), FALSE)
    \/ \E n \in LookupNames :
          \E delErr \in DeleteOutcomes(kv, deletedKey(resolveScope(scopes, n), n)) : DeleteScope(n, delErr)
    \/ \E k \in DOMAIN kv : StoreLoses(k)

SpecDelete == InitScopes /\ [][NextDelete]_vars

\* The scope that DeleteScope(name) resolved is in neither sc nor the store.
deletedFrom(r, sc, store) == r.scope.name \notin DOMAIN sc /\ r.scope.name \notin DOMAIN store

\* C31: DeleteScope deletes the record from the store before it touches the
\* context: when the store's Delete fails with another error than
\* key-not-found, DeleteScope returns that error and the scopes and the
\* addresses of the bridge link are as before; when the store answers
\* key-not-found, DeleteScope goes on and succeeds; and after a DeleteScope
\* that succeeded the scope is in neither scopes nor the store.
C31_DeleteStoreFirst ==
    /\ [][(last'.op = "DeleteScope" /\ last'.path = "io")
             => (last'.err = "io" /\ scopes' = scopes /\ link' = link)]_vars
    /\ [][(last'.op = "DeleteScope" /\ last'.path = ErrKeyNotFound)
             => (last'.err = "" /\ deletedFrom(resolveScope(scopes, last'.arg), scopes', kv'))]_vars
    /\ [][(last'.op = "DeleteScope" /\ last'.err = "")
             => deletedFrom(resolveScope(scopes, last'.arg), scopes', kv')]_vars

\* A bridge scope whose record the store had lost has been deleted, and its
\* gateway has left the bridge link, while another user scope remains.
C31_Witness ==
    /\ last.op = "DeleteScope" /\ last.path = ErrKeyNotFound /\ last.err = ""
    /\ last.arg = UserScopeNames[1] /\ last.arg \notin DOMAIN scopes
    /\ \E n \in DOMAIN scopes : ~scopes[n].builtin

\* The ranges of the scopes of sc whose subnet lies in the default bridge pool.
liveSubnets(sc) ==
    {RangeOf(sc[n].subnet) :
        n \in {m \in DOMAIN sc : /\ ~IsUnspecifiedSubnet(sc[m].subnet)
                                  /\ NetContains(BridgeIPRange, sc[m].subnet.ip)
                                  /\ NetContains(BridgeIPRange, highestIP4(sc[m].subnet))}}

\* A bridge scope asked for without a subnet, under the name nm.
AutoBridge(nm) == ScopeData(nm, "bridge", <<NoNet, NoIP, <<>>, <<>>>>)

\* C32: deleting a scope gives its subnet back to the default bridge pool:
\* the ranges reserved in the pool are always the subnets of the scopes in
\* Context.scopes that were carved from it, and a NewScope of a bridge scope
\* without a subnet under a free name fails for want of a free block only
\* when the scopes that exist leave none, however many scopes were created
\* and deleted before.
C32_DeleteReturnsSubnet ==
    /\ pool = liveSubnets(scopes)
    /\ \A nm \in ScopeNames \ DOMAIN scopes :
          newScope(scopes, pool, link, NewUID(scopes), AutoBridge(nm)).err = "pool exhausted"
              => ~NextIP4NetOK(liveSubnets(scopes), BridgeWidthHostBits)

\* --- scopes under names that other lookups match as well

\* Bridge scopes on subnets of their own outside the default bridge pool,
\* under the literal name "default", under a name that is a prefix of
\* identifiers and under a name that is the identifier another scope gets.
NameScopeInputs ==
    {ScopeData("default", "bridge", <<[ip |-> 16, hb |-> 2], NoIP, <<>>, <<>>>>),
     ScopeData("a", "bridge", <<[ip |-> 20, hb |-> 2], NoIP, <<>>, <<>>>>),
     ScopeData("a3", "bridge", <<[ip |-> 24, hb |-> 2], NoIP, <<>>, <<>>>>)}

ScopeNamesAsked == {sd.name : sd \in NameScopeInputs}

NextNames ==
    \/ \E sd \in NameScopeInputs : NewScope(sd, NewUID(scopes), FALSE)
    \/ \E n \in ScopeNamesAsked \cup {"a2", "zz"} : DeleteScope(n, "")
    \/ \E cid \in DOMAIN handles : \E n \in ScopeNamesAsked, ord \in Orders(DOMAIN handles[cid].networks) :
          /\ Len(handles[cid].devs) < MaxDevs
          /\ AddContainer(cid, Options(n, NoIP), ord)
    \/ \E cid \in DOMAIN handles : \E n \in ScopeNamesAsked :
          /\ Len(handles[cid].devs) < MaxDevs
          /\ RemoveContainer(cid, n)

SpecNames == InitStage /\ [][NextNames]_vars

\* The names under which NewScope succeeded and which were not deleted.
createdNames(sc) == {n \in DOMAIN sc : ~sc[n].builtin}

\* Looking up n in sc finds the scope stored under n and no other.
nameWins(sc, n) ==
    /\ findScopes(sc, n) = [err |-> "", found |-> {sc[n]}]
    /\ resolveScope(sc, n) = [err |-> "", ok |-> TRUE, scope |-> sc[n]]

\* Looking up "default" in sc finds the default bridge scope and no other.
defaultWins(sc) ==
    /\ findScopes(sc, "default") = [err |-> "", found |-> {sc[DefaultBridgeName]}]
    /\ resolveScope(sc, "default") = [err |-> "", ok |-> TRUE, scope |-> sc[DefaultBridgeName]]

\* C33 as stated: for every name under which NewScope succeeded and which
\* was not deleted, the literal "default" included, the lookup of the name
\* returns the scope stored in Context.scopes under that name and no other.
C33_ExactNameWins == \A n \in createdNames(scopes) : nameWins(scopes, n)

\* C33: for every name other than the literal "default" under which NewScope
\* succeeded and which was not deleted, the lookup of the name returns the
\* scope stored under that name and no other, whatever identifiers the name
\* equals or is a prefix of; the lookup of "default" returns the default
\* bridge scope, also when a scope is stored under the name "default". So a
\* successful DeleteScope by such a name removes that scope and no other, and
\* a successful AddContainer by such a name declares an endpoint on it; by
\* "default" the endpoint is declared on the default bridge scope.
C33_ExactNameWinsButDefault ==
    /\ [](\A n \in createdNames(scopes) \ {"default"} : nameWins(scopes, n))
    /\ [](defaultWins(scopes))
    /\ [][(last'.op = "DeleteScope" /\ last'.err = "" /\ last'.arg \in createdNames(scopes) \ {"default"})
             => DOMAIN scopes' = DOMAIN scopes \ {last'.arg}]_vars
    /\ [][(last'.op = "AddContainer" /\ last'.err = "" /\ last'.req \in createdNames(scopes))
             => (IF last'.req = "default" THEN DefaultBridgeName ELSE last'.req)
                    \in DOMAIN handles'[last'.arg].networks]_vars

\* The handle was staged by the name "default" while scopes are stored under
\* "default", under "a" and under "a3", the last with another identifier
\* than a3, which the scope under "a" has.
C33_Witness ==
    /\ last.op = "AddContainer" /\ last.req = "default" /\ last.err = ""
    /\ {"default", "a", "a3"} \subseteq createdNames(scopes)
    /\ scopes["a"].id = "a3" /\ scopes["a3"].id # "a3"
    /\ DefaultBridgeName \in DOMAIN handles[last.arg].networks

\* --- one handle staged and unstaged, never renewed and never bound

NextCards ==
    \/ \E sd \in StageScopeInputs : NewScope(sd, NewUID(scopes), FALSE)
    \/ \E cid \in DOMAIN handles : \E sn \in NICScopes, ord \in Orders(DOMAIN handles[cid].networks) :
          /\ Len(handles[cid].devs) < MaxDevs
          /\ AddContainer(cid, Options(sn, NoIP), ord)
    \/ \E cid \in DOMAIN handles : \E sn \in NICScopes :
          /\ Len(handles[cid].devs) < MaxDevs
          /\ RemoveContainer(cid, sn)

SpecCards == InitStage /\ [][NextCards]_vars

\* The number of device changes of handle h with operation op.
deviceChanges(h, op) == Cardinality({i \in 1..Len(h.devs) : h.devs[i].op = op})

\* The NIC identifiers among the endpoints handle h declares.
declaredNICs(h) == {h.networks[n].id : n \in DOMAIN h.networks}

\* C34: on a handle that started empty and was never bound, after any
\* AddContainer and RemoveContainer calls the add-device changes of the
\* handle's spec are as many more than its remove-device changes as the
\* endpoints it declares have distinct NIC identifiers.
C34_DeviceChangesBalance ==
    \A cid \in DOMAIN handles :
        deviceChanges(handles[cid], "add") - deviceChanges(handles[cid], "remove")
            = Cardinality(declaredNICs(handles[cid]))

====
